---- MODULE Spec2Model ----
(***************************************************************************)
(* Provider switchboard of claudecodeui: the cc_providers / cc_prompts     *)
(* tables of server/database/db.js, the cc-switch route handlers that      *)
(* call them, and the projection of a provider onto the applications'      *)
(* settings files and the process environment.                             *)
(***************************************************************************)
EXTENDS Integers, Sequences, FiniteSets, TLC

(***************************************************************************)
(* Values                                                                  *)
(***************************************************************************)

\* The three app types the routes iterate over.
Apps == {"claude", "codex", "gemini"}

\* A JavaScript undefined (a field missing from a request body).
UNDEF == "undefined"

\* Provider ids the requests name.
Ids == {"A", "B"}

\* The empty JSON object {} (a function with an empty domain).
EmptyObj == << >>

\* settings_config values a client sends: an env map and the optional raw
\* TOML payload ("" is the missing, falsy configToml).
CfgAnthropic ==
    [env |-> ("ANTHROPIC_AUTH_TOKEN" :> "sk-ant-relay"), configToml |-> ""]

CfgOpenai ==
    [env |-> ("OPENAI_API_KEY" :> "sk-openai"), configToml |-> "model = x"]

UserConfigs == {CfgAnthropic, CfgOpenai}

\* Names a request body carries: missing, empty, or a real name.
Names == {UNDEF, "", "Relay"}

(***************************************************************************)
(* State                                                                   *)
(***************************************************************************)
VARIABLES
    cc_providers,   \* table cc_providers: id -> row, for the ids present
    cc_prompts,     \* table cc_prompts: id -> row, for the ids present
    providers,      \* table providers of the CC-Switch app's own database
    files,          \* the applications' files: path -> content, for those that exist
    procEnv,        \* process.env: key -> value
    imp,            \* POST /import in progress: entries done and app list reached
    res,            \* the last completed request: its route and HTTP status
    req,            \* switch requests of the full route module, by request
    commits,        \* the requests whose switchTo committed, in commit order
    finished,       \* the requests that have responded, in response order
    simple,         \* the switch request of the simple route module
    seen,           \* what a reader on another connection last observed
    ap,             \* the applyProviderConfig call under way, step by step
    cc_speed_tests, \* table cc_speed_tests: its rows in insertion (id) order
    probe,          \* POST /speed-test/all in progress: the providers left
    now,            \* CURRENT_TIMESTAMP of the database, in seconds
    fetched,        \* the HEAD request a probe sent last: its url and key
    cc_mcp_servers, \* table cc_mcp_servers: id -> row, for the ids present
    rmw,            \* the handlers rewriting ~/.claude/settings.json, by handler
    dialog,         \* the provider dialog of the settings page and its form
    ws              \* the WebSocket hook: its socket, timers and counters

vars == <<cc_providers, cc_prompts, providers, files, procEnv, imp, res,
          req, commits, finished, simple, seen, ap, cc_speed_tests, probe,
          now, fetched, cc_mcp_servers, rmw, dialog, ws>>

\* What the handlers of one table leave alone.
fsVars == <<files, procEnv>>
switchVars == <<req, commits, finished>>
simpleVars == <<providers, simple, seen>>
clientVars == <<rmw, dialog, ws>>
idleVars == <<now, fetched, cc_mcp_servers, clientVars>>
restVars == <<ap, cc_speed_tests, probe, idleVars>>

(***************************************************************************)
(* ccProvidersDb                                                           *)
(***************************************************************************)

\* ccProvidersDb.getById: the row of an id that is present (null otherwise:
\* the callers' "if (!provider)" is the test id \notin DOMAIN rows).
ccProvidersDb_getById(rows, id) == rows[id]

\* The ids of the rows of an app type that are flagged current.
CurrentIds(rows, appType) ==
    {i \in DOMAIN rows : rows[i].app_type = appType /\ rows[i].is_current}

\* ccProvidersDb.upsert throws when the statement fails: column name is
\* NOT NULL, and a missing name is bound as NULL.
ccProvidersDb_upsertThrows(provider) == provider.name = UNDEF

\* An upsert whose update branch took app_type from the request as well.
upsertSettingAppType(rows, provider) ==
    LET app_type == IF provider.app_type = UNDEF THEN "claude"
                    ELSE provider.app_type
    IN  [i \in DOMAIN rows \cup {provider.id} |->
            IF i = provider.id
            THEN [name |-> provider.name, app_type |-> app_type,
                  settings_config |-> provider.settings_config,
                  is_current |-> provider.is_current]
            ELSE rows[i]]

\* ccProvidersDb.upsert: INSERT ... ON CONFLICT(id) DO UPDATE.  The update
\* branch sets name, settings_config and is_current (and the display
\* columns) from the request, and keeps the row's app_type.
ccProvidersDb_upsert(rows, provider) ==
    LET app_type == IF provider.app_type = UNDEF THEN "claude"
                    ELSE provider.app_type
        is_current == provider.is_current
    IN  IF provider.id \in DOMAIN rows
        THEN [rows EXCEPT ![provider.id] =
                [@ EXCEPT !.name = provider.name,
                          !.settings_config = provider.settings_config,
                          !.is_current = is_current]]
        ELSE rows @@ (provider.id :>
                [name |-> provider.name,
                 app_type |-> app_type,
                 settings_config |-> provider.settings_config,
                 is_current |-> is_current])

\* ccProvidersDb.delete: removes the row; result.changes > 0.
ccProvidersDb_delete(rows, id) == [i \in DOMAIN rows \ {id} |-> rows[i]]

\* The two statements of the switch, in order.
clearCurrent(rows, appType) ==
    [i \in DOMAIN rows |->
        IF rows[i].app_type = appType
        THEN [rows[i] EXCEPT !.is_current = FALSE] ELSE rows[i]]

setCurrent(rows, id, appType) ==
    [i \in DOMAIN rows |->
        IF i = id /\ rows[i].app_type = appType
        THEN [rows[i] EXCEPT !.is_current = TRUE] ELSE rows[i]]

\* Where a statement of the switch can fail (an I/O or lock error).
Faults == {"none", "clear", "set"}

\* A switch that sets the flag of the target and clears none.
switchToWithoutClear(rows, id, appType, fault) ==
    IF fault # "none" THEN rows ELSE setCurrent(rows, id, appType)

\* ccProvidersDb.switchTo: both statements inside db.transaction, which
\* rolls back and rethrows when either throws.
ccProvidersDb_switchTo(rows, id, appType, fault) ==
    IF fault # "none" THEN rows
    ELSE setCurrent(clearCurrent(rows, appType), id, appType)

(***************************************************************************)
(* applyProviderConfig (full route module)                                 *)
(***************************************************************************)
CLAUDE_SETTINGS == "~/.claude/settings.json"
CODEX_CONFIG == "~/.codex/config.toml"
CODEX_AUTH == "~/.codex/auth.json"
GEMINI_SETTINGS == "~/.gemini/settings.json"
GEMINI_ENV == "~/.gemini/.env"

\* readJsonFile: the parsed document, {} when the file cannot be read.
readJsonFile(fs, filePath) ==
    IF filePath \in DOMAIN fs THEN fs[filePath] ELSE EmptyObj

\* writeJsonFile: the file holds the document once the rename is done.
writeJsonFile(fs, filePath, data) ==
    [p \in DOMAIN fs \cup {filePath} |-> IF p = filePath THEN data ELSE fs[p]]

\* fs.writeFile: an in-place write of the content.
writeFile(fs, filePath, content) ==
    [p \in DOMAIN fs \cup {filePath} |-> IF p = filePath THEN content ELSE fs[p]]

\* { ...a, ...b }: the entries of b over those of a.
spread(a, b) ==
    [k \in DOMAIN a \cup DOMAIN b |-> IF k \in DOMAIN b THEN b[k] ELSE a[k]]

\* settings.env = env: the provider's env in place of the document's.
replaceEnv(settings, env) ==
    [k \in DOMAIN settings \cup {"env"} |->
        IF k = "env" THEN env ELSE settings[k]]

\* settings.env = { ...settings.env, ...env } on a parsed settings document.
mergeEnv(settings, env) ==
    LET old == IF "env" \in DOMAIN settings THEN settings["env"] ELSE EmptyObj
    IN  [k \in DOMAIN settings \cup {"env"} |->
            IF k = "env" THEN spread(old, env) ELSE settings[k]]

\* Object.entries(env).map(([k, v]) => `${k}=${v}`): one line per entry.
envLines(env) == {<<k, "=", env[k]>> : k \in DOMAIN env}

\* The JSON document applyProviderConfig reads before it writes: the
\* settings file of claude or gemini; codex reads nothing.
settingsPath(appType) ==
    IF appType = "gemini" THEN GEMINI_SETTINGS ELSE CLAUDE_SETTINGS

\* The files once applyProviderConfig(provider, appType) has written, given
\* the settings document it read.
applyFiles(fs, settings, provider, appType) ==
    LET config == provider.settings_config
        env == config.env
    IN  CASE appType = "claude" ->
               writeJsonFile(fs, CLAUDE_SETTINGS, mergeEnv(settings, env))
          [] appType = "codex" ->
               LET fs1 == IF config.configToml # ""
                          THEN writeFile(fs, CODEX_CONFIG, config.configToml)
                          ELSE fs
               IN  IF "OPENAI_API_KEY" \in DOMAIN env
                   THEN writeJsonFile(fs1, CODEX_AUTH,
                                      [api_key |-> env["OPENAI_API_KEY"]])
                   ELSE fs1
          [] appType = "gemini" ->
               writeFile(
                 writeJsonFile(fs, GEMINI_SETTINGS, mergeEnv(settings, env)),
                 GEMINI_ENV, envLines(env))
          [] OTHER -> fs

\* process.env after applyProviderConfig(provider, appType): only the
\* claude branch assigns process.env[key] = value.
applyEnv(penv, provider, appType) ==
    IF appType = "claude" THEN spread(penv, provider.settings_config.env)
    ELSE penv

(***************************************************************************)
(* Request bodies                                                          *)
(***************************************************************************)

\* Most provider entries one POST /import carries.
MaxImport == 2

\* Provider objects a client sends (POST /providers, PUT /providers/:id and
\* the entries of an import); id and app_type may be missing.
Bodies ==
    [id : Ids \cup {UNDEF}, name : Names, app_type : Apps \cup {UNDEF},
     settings_config : UserConfigs, is_current : BOOLEAN]

\* The order in which POST /import walks data.providers.
AppOrder == <<"claude", "codex", "gemini">>

AppIndex(appType) == CHOOSE i \in 1..3 : AppOrder[i] = appType

NoImport == [n |-> 0, app |-> 0]

\* The bodies that differ in what a handler reads: PUT takes the id from
\* the path, and an import entry takes its app_type from its list.
PutBodies == {b \in Bodies : b.id = UNDEF}
ImportBodies == {b \in Bodies : b.id # UNDEF /\ b.app_type = UNDEF}

(***************************************************************************)
(* Route handlers over ccProvidersDb                                       *)
(***************************************************************************)

\* Number of switch requests of the full route module that overlap.
NumReq == 2

Reqs == 1..NumReq

\* A response: the route that answered and its status.
Response(op, status) == [op |-> op, status |-> status]

NoResponse == Response("", 0)

\* A request that has not arrived; settings is the document the handler
\* holds between its read and its write, body the keys of the JSON body it
\* answers with.
NewReq ==
    [pc |-> "new", id |-> "", appType |-> "", status |-> 0,
     settings |-> EmptyObj, body |-> {}]

\* No request of the simple route module under way.
NoSimple ==
    [pc |-> "idle", id |-> "", appType |-> "", status |-> 0,
     before |-> EmptyObj]

NotSeen == [appType |-> "", n |-> 0]

\* No applyProviderConfig call under way.  before is the file system as the
\* call found it, settings the document it read, k the write it has reached.
NoApply ==
    [pc |-> "idle", id |-> "", appType |-> "", settings |-> EmptyObj,
     k |-> 0, before |-> EmptyObj]

\* No POST /speed-test/all under way.  providers is what getAll(app)
\* returned, left those of them the loop has not reached.
NoProbe ==
    [pc |-> "idle", app |-> "", providers |-> EmptyObj, left |-> {},
     results |-> {}]

\* No HEAD request sent yet.
NoFetch == [url |-> [base |-> "", path |-> ""], apiKey |-> ""]

\* The handlers that read, change and write back ~/.claude/settings.json.
Writers == {"switch", "prompt", "mcp"}

\* A handler that has not been called: op is its route, arg the value it
\* is to put into the document (a prompt's content is a string), data the
\* document it is to write, fd the path its open file is known by.
NoWriter(w) ==
    [pc |-> "new", op |-> "", status |-> 0,
     arg |-> IF w = "prompt" THEN "" ELSE EmptyObj,
     data |-> EmptyObj, fd |-> ""]

NoWriters == [w \in Writers |-> NoWriter(w)]

\* The dialog closed and its form reset.
NoDialog ==
    [open |-> FALSE, editing |-> "", activeApp |-> "claude", name |-> "",
     baseUrl |-> "", apiKey |-> "", model |-> ""]

\* The hook before its component is mounted: no socket, no timer, and the
\* initial values of its state and refs.  token is whether localStorage
\* has an auth-token, retry what became of the reconnect the last close
\* asked for.
NoSocket ==
    [mounted |-> "no", platform |-> FALSE, token |-> FALSE,
     socket |-> "none", code |-> 0,
     timers |-> 0, reconnectTimeoutRef |-> FALSE,
     hasConnectedOnceRef |-> FALSE, reconnectCount |-> 0, opens |-> 0,
     closes |-> 0, retry |-> "none"]

\* The state of everything but the tables: no file written yet, no request
\* under way.
AtRest ==
    /\ files = EmptyObj
    /\ procEnv = EmptyObj
    /\ imp = NoImport
    /\ res = NoResponse
    /\ req = [r \in Reqs |-> NewReq]
    /\ commits = << >>
    /\ finished = << >>
    /\ simple = NoSimple
    /\ seen = NotSeen
    /\ ap = NoApply
    /\ cc_speed_tests = << >>
    /\ probe = NoProbe
    /\ now = 0
    /\ fetched = NoFetch
    /\ cc_mcp_servers = EmptyObj
    /\ rmw = NoWriters
    /\ dialog = NoDialog
    /\ ws = NoSocket

\* A fresh database: init.sql has created the tables, which are empty.
Init ==
    /\ cc_providers = EmptyObj
    /\ cc_prompts = EmptyObj
    /\ providers = EmptyObj
    /\ AtRest

\* POST /providers: generates an id when none is given, rejects a falsy
\* name with 400, otherwise upserts.
PostProviders(body) ==
    /\ imp = NoImport
    /\ \E id \in Ids :
          /\ IF body.id = UNDEF THEN id \notin DOMAIN cc_providers
                                ELSE id = body.id
          /\ LET provider == [body EXCEPT !.id = id]
             IN  IF provider.name = UNDEF \/ provider.name = ""
                 THEN /\ res' = Response("POST /providers", 400)
                      /\ UNCHANGED cc_providers
                 ELSE /\ cc_providers' = ccProvidersDb_upsert(cc_providers, provider)
                      /\ res' = Response("POST /providers", 200)
    /\ UNCHANGED <<restVars, cc_prompts, fsVars, switchVars, simpleVars, imp>>

\* PUT /providers/:id: upserts { ...req.body, id } with no validation; a
\* throw of upsert becomes a 500.
PutProvidersId(id, body) ==
    /\ imp = NoImport
    /\ LET provider == [body EXCEPT !.id = id]
       IN  IF ccProvidersDb_upsertThrows(provider)
           THEN /\ res' = Response("PUT /providers/:id", 500)
                /\ UNCHANGED cc_providers
           ELSE /\ cc_providers' = ccProvidersDb_upsert(cc_providers, provider)
                /\ res' = Response("PUT /providers/:id", 200)
    /\ UNCHANGED <<restVars, cc_prompts, fsVars, switchVars, simpleVars, imp>>

\* A DELETE /providers/:id on a connection that does not enforce foreign
\* keys: the rows of cc_speed_tests stay.
DeleteWithoutCascade(id) ==
    /\ imp = NoImport
    /\ IF id \in DOMAIN cc_providers
       THEN /\ cc_providers' = ccProvidersDb_delete(cc_providers, id)
            /\ res' = Response("DELETE /providers/:id", 200)
       ELSE /\ res' = Response("DELETE /providers/:id", 404)
            /\ UNCHANGED cc_providers
    /\ UNCHANGED <<restVars, cc_prompts, fsVars, switchVars, simpleVars, imp>>

\* DELETE /providers/:id.  The connection runs init.sql, whose first
\* statement is PRAGMA foreign_keys = ON: the rows of cc_speed_tests that
\* reference the provider go with it (ON DELETE CASCADE).
DeleteProvidersId(id) ==
    /\ imp = NoImport
    /\ IF id \in DOMAIN cc_providers
       THEN /\ cc_providers' = ccProvidersDb_delete(cc_providers, id)
            /\ res' = Response("DELETE /providers/:id", 200)
       ELSE /\ res' = Response("DELETE /providers/:id", 404)
            /\ UNCHANGED cc_providers
    /\ cc_speed_tests' =
          SelectSeq(cc_speed_tests, LAMBDA row : row.provider_id # id)
    /\ UNCHANGED <<ap, probe, idleVars, cc_prompts, fsVars, switchVars,
                   simpleVars, imp>>

\* POST /import without data.version.
PostImportInvalid ==
    /\ imp = NoImport
    /\ res' = Response("POST /import", 400)
    /\ UNCHANGED <<restVars, cc_providers, cc_prompts, fsVars, switchVars, simpleVars, imp>>

\* POST /import, one turn of its provider loop: the lists are walked in
\* AppOrder, each entry upserted with the list's app_type; a throw ends the
\* handler with 500 and keeps the entries already stored.  The handler is
\* synchronous: no other handler runs until it has ended.
PostImportEntry(appType, body) ==
    /\ imp.n < MaxImport
    /\ AppIndex(appType) >= imp.app
    /\ body.id # UNDEF
    /\ LET provider == [body EXCEPT !.app_type = appType]
       IN  IF ccProvidersDb_upsertThrows(provider)
           THEN /\ res' = Response("POST /import", 500)
                /\ imp' = NoImport
                /\ UNCHANGED cc_providers
           ELSE /\ cc_providers' = ccProvidersDb_upsert(cc_providers, provider)
                /\ imp' = [n |-> imp.n + 1, app |-> AppIndex(appType)]
                /\ UNCHANGED res
    /\ UNCHANGED <<restVars, cc_prompts, fsVars, switchVars, simpleVars>>

\* POST /import, after the last entry.
PostImportEnd ==
    /\ res' = Response("POST /import", 200)
    /\ imp' = NoImport
    /\ UNCHANGED <<restVars, cc_providers, cc_prompts, fsVars, switchVars, simpleVars>>

Next ==
    \/ \E body \in Bodies : PostProviders(body)
    \/ \E id \in Ids, body \in PutBodies : PutProvidersId(id, body)
    \/ \E id \in Ids : DeleteProvidersId(id)
    \/ PostImportInvalid
    \/ \E appType \in Apps, body \in ImportBodies :
          PostImportEntry(appType, body)
    \/ PostImportEnd

Spec == Init /\ [][Next]_vars

(***************************************************************************)
(* ccPromptsDb and the handlers over it                                    *)
(***************************************************************************)

PromptIds == {"P1", "P2", "P3"}

\* Prompt objects a client sends; any field but is_enabled may be missing.
PromptBodies ==
    [id : PromptIds \cup {UNDEF}, name : {UNDEF, "Reviewer"},
     content : {UNDEF, "Be terse."}, app_type : Apps \cup {UNDEF},
     is_enabled : BOOLEAN]

\* The ids of the prompts of an app type that are flagged enabled.
EnabledIds(rows, appType) ==
    {i \in DOMAIN rows : rows[i].app_type = appType /\ rows[i].is_enabled}

\* ccPromptsDb.upsert throws when the statement fails: name and content
\* are NOT NULL.
ccPromptsDb_upsertThrows(prompt) ==
    prompt.name = UNDEF \/ prompt.content = UNDEF

\* ccPromptsDb.upsert: INSERT ... ON CONFLICT(id) DO UPDATE of name,
\* content and is_enabled; the row keeps its app_type.
ccPromptsDb_upsert(rows, prompt) ==
    LET app_type == IF prompt.app_type = UNDEF THEN "claude"
                    ELSE prompt.app_type
    IN  IF prompt.id \in DOMAIN rows
        THEN [rows EXCEPT ![prompt.id] =
                [@ EXCEPT !.name = prompt.name,
                          !.content = prompt.content,
                          !.is_enabled = prompt.is_enabled]]
        ELSE rows @@ (prompt.id :>
                [name |-> prompt.name,
                 app_type |-> app_type,
                 content |-> prompt.content,
                 is_enabled |-> prompt.is_enabled])

\* ccPromptsDb.delete.
ccPromptsDb_delete(rows, id) == [i \in DOMAIN rows \ {id} |-> rows[i]]

\* ccPromptsDb.disableAll: UPDATE ... SET is_enabled = 0 WHERE app_type = ?.
ccPromptsDb_disableAll(rows, appType) ==
    [i \in DOMAIN rows |->
        IF rows[i].app_type = appType
        THEN [rows[i] EXCEPT !.is_enabled = FALSE] ELSE rows[i]]

\* ccPromptsDb.enable: in one transaction, clear the flags of appType, then
\* UPDATE ... SET is_enabled = 1 WHERE id = ? (the id alone selects the row).
\* A failing statement rolls the transaction back.
ccPromptsDb_enable(rows, id, appType, fault) ==
    IF fault # "none" THEN rows
    ELSE [i \in DOMAIN rows |->
            IF i = id
            THEN [rows[i] EXCEPT !.is_enabled = TRUE]
            ELSE ccPromptsDb_disableAll(rows, appType)[i]]

\* POST /prompts: generates an id when none is given, rejects a falsy name
\* or content with 400, otherwise upserts.
PostPrompts(body) ==
    /\ imp = NoImport
    /\ \E id \in PromptIds :
          /\ IF body.id = UNDEF THEN id \notin DOMAIN cc_prompts
                                ELSE id = body.id
          /\ LET prompt == [body EXCEPT !.id = id]
             IN  IF prompt.name = UNDEF \/ prompt.content = UNDEF
                 THEN /\ res' = Response("POST /prompts", 400)
                      /\ UNCHANGED cc_prompts
                 ELSE /\ cc_prompts' = ccPromptsDb_upsert(cc_prompts, prompt)
                      /\ res' = Response("POST /prompts", 200)
    /\ UNCHANGED <<restVars, cc_providers, fsVars, switchVars, simpleVars, imp>>

\* PUT /prompts/:id: upserts { ...req.body, id } with no validation.
PutPromptsId(id, body) ==
    /\ imp = NoImport
    /\ LET prompt == [body EXCEPT !.id = id]
       IN  IF ccPromptsDb_upsertThrows(prompt)
           THEN /\ res' = Response("PUT /prompts/:id", 500)
                /\ UNCHANGED cc_prompts
           ELSE /\ cc_prompts' = ccPromptsDb_upsert(cc_prompts, prompt)
                /\ res' = Response("PUT /prompts/:id", 200)
    /\ UNCHANGED <<restVars, cc_providers, fsVars, switchVars, simpleVars, imp>>

\* DELETE /prompts/:id.
DeletePromptsId(id) ==
    /\ imp = NoImport
    /\ IF id \in DOMAIN cc_prompts
       THEN /\ cc_prompts' = ccPromptsDb_delete(cc_prompts, id)
            /\ res' = Response("DELETE /prompts/:id", 200)
       ELSE /\ res' = Response("DELETE /prompts/:id", 404)
            /\ UNCHANGED cc_prompts
    /\ UNCHANGED <<restVars, cc_providers, fsVars, switchVars, simpleVars, imp>>

\* settings[key] = value on a parsed document.
setKey(settings, key, value) ==
    [k \in DOMAIN settings \cup {key} |->
        IF k = key THEN value ELSE settings[k]]

\* delete settings[key].
deleteKey(settings, key) == [k \in DOMAIN settings \ {key} |-> settings[k]]

\* POST /prompts/:id/enable?app=appType: enable is called with whatever id
\* the path names and its throw becomes a 500; then, for claude, the content
\* of the prompt getEnabled returns (LIMIT 1 with no ORDER BY: any enabled
\* prompt of the app) is written to settings.systemPrompt.
PostPromptsIdEnable(id, appType, fault) ==
    /\ imp = NoImport
    /\ cc_prompts' = ccPromptsDb_enable(cc_prompts, id, appType, fault)
    /\ res' = Response("POST /prompts/:id/enable",
                       IF fault # "none" THEN 500 ELSE 200)
    /\ IF fault = "none" /\ appType = "claude"
             /\ EnabledIds(cc_prompts', appType) # {}
       THEN \E p \in EnabledIds(cc_prompts', appType) :
               files' = writeJsonFile(files, CLAUDE_SETTINGS,
                           setKey(readJsonFile(files, CLAUDE_SETTINGS),
                                  "systemPrompt", cc_prompts'[p].content))
       ELSE UNCHANGED files
    /\ UNCHANGED <<restVars, cc_providers, procEnv, switchVars, simpleVars, imp>>

\* POST /prompts/disable-all?app=appType: disableAll, then, for claude,
\* settings.systemPrompt is deleted and the settings file rewritten.
PostPromptsDisableAll(appType) ==
    /\ imp = NoImport
    /\ cc_prompts' = ccPromptsDb_disableAll(cc_prompts, appType)
    /\ res' = Response("POST /prompts/disable-all", 200)
    /\ IF appType = "claude"
       THEN files' = writeJsonFile(files, CLAUDE_SETTINGS,
                        deleteKey(readJsonFile(files, CLAUDE_SETTINGS),
                                  "systemPrompt"))
       ELSE UNCHANGED files
    /\ UNCHANGED <<restVars, cc_providers, procEnv, switchVars, simpleVars, imp>>

\* POST /import, one turn of its prompt loop (the loop after the provider
\* loop): each entry is upserted with its list's app_type.
PostImportPrompt(appType, body) ==
    /\ imp.n < MaxImport
    /\ AppIndex(appType) >= imp.app
    /\ body.id # UNDEF
    /\ LET prompt == [body EXCEPT !.app_type = appType]
       IN  IF ccPromptsDb_upsertThrows(prompt)
           THEN /\ res' = Response("POST /import", 500)
                /\ imp' = NoImport
                /\ UNCHANGED cc_prompts
           ELSE /\ cc_prompts' = ccPromptsDb_upsert(cc_prompts, prompt)
                /\ imp' = [n |-> imp.n + 1, app |-> AppIndex(appType)]
                /\ UNCHANGED res
    /\ UNCHANGED <<restVars, cc_providers, fsVars, switchVars, simpleVars>>

NextPrompts ==
    \/ \E body \in PromptBodies : PostPrompts(body)
    \/ \E id \in PromptIds, body \in {b \in PromptBodies : b.id = UNDEF} :
          PutPromptsId(id, body)
    \/ \E id \in PromptIds : DeletePromptsId(id)
    \/ \E id \in PromptIds, appType \in Apps, fault \in Faults :
          PostPromptsIdEnable(id, appType, fault)
    \/ \E appType \in Apps : PostPromptsDisableAll(appType)
    \/ \E appType \in Apps,
          body \in {b \in PromptBodies : b.id # UNDEF /\ b.app_type = UNDEF} :
          PostImportPrompt(appType, body)
    \/ PostImportEnd

SpecPrompts == Init /\ [][NextPrompts]_vars

(***************************************************************************)
(* POST /providers/:id/switch of the full route module, request by request *)
(***************************************************************************)

CfgMirror ==
    [env |-> ("ANTHROPIC_AUTH_TOKEN" :> "sk-ant-mirror"), configToml |-> ""]

\* The ids switch requests name: A and B (claude), C (codex), and D, which
\* no row has.
SwitchIds == {"A", "B", "C", "D"}

\* A store that POST /providers requests have filled.
StoredProviders ==
    ("A" :> [name |-> "Relay", app_type |-> "claude",
             settings_config |-> CfgAnthropic, is_current |-> TRUE])
    @@ ("B" :> [name |-> "Mirror", app_type |-> "claude",
                settings_config |-> CfgMirror, is_current |-> FALSE])
    @@ ("C" :> [name |-> "OpenAI", app_type |-> "codex",
                settings_config |-> CfgOpenai, is_current |-> TRUE])

InitSwitch ==
    /\ cc_providers = StoredProviders
    /\ cc_prompts = EmptyObj
    /\ providers = EmptyObj
    /\ AtRest

\* The request slots are numbered in arrival order.
Arrives(r) ==
    /\ req[r].pc = "new"
    /\ \A q \in Reqs : q < r => req[q].pc # "new"

\* The handler from its start to its first await: getById (404 when the id
\* has no row, whatever its app_type), then switchTo, whose throw becomes a
\* 500, then applyProviderConfig up to the read of the settings file (codex
\* reads none).
SwitchBegin(r, id, appType, fault) ==
    /\ Arrives(r)
    /\ IF id \notin DOMAIN cc_providers
       THEN /\ req' = [req EXCEPT ![r] =
                        [@ EXCEPT !.pc = "done", !.id = id,
                                  !.appType = appType, !.status = 404,
                                  !.body = {"error"}]]
            /\ finished' = Append(finished, r)
            /\ UNCHANGED <<cc_providers, commits>>
       ELSE /\ cc_providers' =
                  ccProvidersDb_switchTo(cc_providers, id, appType, fault)
            /\ IF fault # "none"
               THEN /\ req' = [req EXCEPT ![r] =
                                [@ EXCEPT !.pc = "done", !.id = id,
                                          !.appType = appType, !.status = 500,
                                          !.body = {"error"}]]
                    /\ finished' = Append(finished, r)
                    /\ UNCHANGED commits
               ELSE /\ req' = [req EXCEPT ![r] =
                                [@ EXCEPT !.pc = IF appType = "codex"
                                                 THEN "write" ELSE "read",
                                          !.id = id, !.appType = appType]]
                    /\ commits' = Append(commits, r)
                    /\ UNCHANGED finished
    /\ UNCHANGED <<restVars, cc_prompts, fsVars, simpleVars, imp, res>>

\* applyProviderConfig: readJsonFile of the app's settings file returns.
SwitchRead(r) ==
    /\ req[r].pc = "read"
    /\ req' = [req EXCEPT ![r] =
                [@ EXCEPT !.pc = "write",
                          !.settings =
                              readJsonFile(files, settingsPath(req[r].appType))]]
    /\ UNCHANGED <<restVars, cc_providers, cc_prompts, fsVars, commits, finished,
                   simpleVars, imp, res>>

\* applyProviderConfig: the writes, the assignments to process.env, and
\* the 200 response.  provider is the row getById returned at the start;
\* no request of this specification changes a row's settings_config.
SwitchWrite(r) ==
    /\ req[r].pc = "write"
    /\ LET provider == ccProvidersDb_getById(cc_providers, req[r].id)
       IN  /\ files' = applyFiles(files, req[r].settings, provider,
                                  req[r].appType)
           /\ procEnv' = applyEnv(procEnv, provider, req[r].appType)
    /\ req' = [req EXCEPT ![r] =
                [@ EXCEPT !.pc = "done", !.status = 200,
                          !.settings = EmptyObj,
                          !.body = {"success", "provider", "message"}]]
    /\ finished' = Append(finished, r)
    /\ UNCHANGED <<restVars, cc_providers, cc_prompts, commits, simpleVars, imp, res>>

\* applyProviderConfig rejects at its first file system call (ensureDir or
\* the first write): nothing is written, and the handler's catch answers
\* 500 with { error: error.message }, as it does when switchTo throws.
SwitchApplyFails(r) ==
    /\ req[r].pc \in {"read", "write"}
    /\ req' = [req EXCEPT ![r] =
                [@ EXCEPT !.pc = "done", !.status = 500,
                          !.settings = EmptyObj, !.body = {"error"}]]
    /\ finished' = Append(finished, r)
    /\ UNCHANGED <<restVars, cc_providers, cc_prompts, fsVars, commits,
                   simpleVars, imp, res>>

NextSwitch ==
    \/ \E r \in Reqs, id \in SwitchIds, appType \in Apps, fault \in Faults :
          SwitchBegin(r, id, appType, fault)
    \/ \E r \in Reqs : SwitchRead(r)
    \/ \E r \in Reqs : SwitchWrite(r)
    \/ \E r \in Reqs : SwitchApplyFails(r)

SpecSwitch == InitSwitch /\ [][NextSwitch]_vars

(***************************************************************************)
(* POST /providers/:id/switch of the simple route module, which works on   *)
(* table providers of the CC-Switch application's own database             *)
(***************************************************************************)

\* The database file exists and holds rows the CC-Switch application wrote.
InitSimple ==
    /\ cc_providers = EmptyObj
    /\ cc_prompts = EmptyObj
    /\ providers = StoredProviders
    /\ AtRest

\* SELECT * FROM providers WHERE id = ? AND app_type = ? finds a row.
selectProvider(rows, id, appType) ==
    id \in DOMAIN rows /\ rows[id].app_type = appType

\* The handler up to its SELECT: 404 when no row has the id and the app
\* type.  before records the table as the request found it.
SimpleSelect(id, appType) ==
    /\ simple.pc \in {"idle", "done"}
    /\ simple' = [pc |-> IF selectProvider(providers, id, appType)
                         THEN "clear" ELSE "done",
                  id |-> id, appType |-> appType,
                  status |-> IF selectProvider(providers, id, appType)
                             THEN 0 ELSE 404,
                  before |-> providers]
    /\ UNCHANGED <<restVars, cc_providers, cc_prompts, providers, seen, fsVars,
                   switchVars, imp, res>>

\* UPDATE providers SET is_current = 0 WHERE app_type = ?, a statement on
\* its own (autocommit); its throw becomes a 500.
SimpleClear(fault) ==
    /\ simple.pc = "clear"
    /\ IF fault = "clear"
       THEN /\ simple' = [simple EXCEPT !.pc = "done", !.status = 500]
            /\ UNCHANGED providers
       ELSE /\ providers' = clearCurrent(providers, simple.appType)
            /\ simple' = [simple EXCEPT !.pc = "set"]
    /\ UNCHANGED <<restVars, cc_providers, cc_prompts, seen, fsVars, switchVars, imp, res>>

\* UPDATE providers SET is_current = 1 WHERE id = ? AND app_type = ?, a
\* statement on its own; its throw becomes a 500.
SimpleSet(fault) ==
    /\ simple.pc = "set"
    /\ IF fault = "set"
       THEN /\ simple' = [simple EXCEPT !.pc = "done", !.status = 500]
            /\ UNCHANGED providers
       ELSE /\ providers' = setCurrent(providers, simple.id, simple.appType)
            /\ simple' = [simple EXCEPT !.pc = "apply"]
    /\ UNCHANGED <<restVars, cc_providers, cc_prompts, seen, fsVars, switchVars, imp, res>>

\* applyProviderConfig of the simple module: whatever the app type, the
\* provider's env is merged into the claude settings file and assigned to
\* process.env; then the 200 response.
SimpleApply ==
    /\ simple.pc = "apply"
    /\ LET env == providers[simple.id].settings_config.env
       IN  /\ files' = writeJsonFile(files, CLAUDE_SETTINGS,
                          mergeEnv(readJsonFile(files, CLAUDE_SETTINGS), env))
           /\ procEnv' = spread(procEnv, env)
    /\ simple' = [simple EXCEPT !.pc = "done", !.status = 200]
    /\ UNCHANGED <<restVars, cc_providers, cc_prompts, providers, seen, switchVars,
                   imp, res>>

\* Another connection to the database (the CC-Switch application, or a
\* second server process) counts the current providers of an app type.
Reader(appType) ==
    /\ seen' = [appType |-> appType,
                n |-> Cardinality(CurrentIds(providers, appType))]
    /\ UNCHANGED <<restVars, cc_providers, cc_prompts, providers, simple, fsVars,
                   switchVars, imp, res>>

NextSimple ==
    \/ \E id \in SwitchIds, appType \in Apps : SimpleSelect(id, appType)
    \/ \E fault \in {"none", "clear"} : SimpleClear(fault)
    \/ \E fault \in {"none", "set"} : SimpleSet(fault)
    \/ SimpleApply
    \/ \E appType \in Apps : Reader(appType)

SpecSimple == InitSimple /\ [][NextSimple]_vars

(***************************************************************************)
(* applyProviderConfig of the full route module, file operation by file    *)
(* operation                                                               *)
(***************************************************************************)

CfgGemini == [env |-> ("GOOGLE_API_KEY" :> "g-key"), configToml |-> ""]

\* The providers applyProviderConfig is called with: those of
\* StoredProviders and a gemini provider.
ApplyProviders ==
    StoredProviders
    @@ ("G" :> [name |-> "Gemini", app_type |-> "gemini",
                settings_config |-> CfgGemini, is_current |-> TRUE])

\* Files the applications already have when the server starts: settings
\* documents with keys of their own, and earlier codex and gemini files.
ExistingFiles ==
    (CLAUDE_SETTINGS :>
        [model |-> "opus",
         env |-> [ANTHROPIC_AUTH_TOKEN |-> "sk-ant-old", HTTP_PROXY |-> "proxy"]])
    @@ (CODEX_CONFIG :> "model = old")
    @@ (CODEX_AUTH :> [api_key |-> "sk-old"])
    @@ (GEMINI_SETTINGS :> [theme |-> "dark"])
    @@ (GEMINI_ENV :> {<<"GOOGLE_API_KEY", "=", "g-old">>})

\* tempFile = filePath + '.tmp' in writeJsonFile.
tempFile(filePath) ==
    CASE filePath = CLAUDE_SETTINGS -> "~/.claude/settings.json.tmp"
      [] filePath = CODEX_AUTH -> "~/.codex/auth.json.tmp"
      [] filePath = GEMINI_SETTINGS -> "~/.gemini/settings.json.tmp"

\* A file that fs.writeFile has opened (and so truncated) and not yet
\* filled: no TOML text, no env line, and for readJsonFile no document.
truncated(filePath) ==
    CASE filePath = CODEX_CONFIG -> ""
      [] filePath = GEMINI_ENV -> {}
      [] OTHER -> EmptyObj

\* The writes of applyProviderConfig(provider, appType) in program order,
\* given the settings document it read: the target, the content, and
\* whether the write goes through writeJsonFile (temporary file, then
\* rename) or through fs.writeFile on the target itself.
applyWrites(settings, provider, appType) ==
    LET config == provider.settings_config
        env == config.env
    IN  CASE appType = "claude" ->
               <<[path |-> CLAUDE_SETTINGS, json |-> TRUE,
                  data |-> mergeEnv(settings, env)]>>
          [] appType = "codex" ->
               (IF config.configToml # ""
                THEN <<[path |-> CODEX_CONFIG, json |-> FALSE,
                        data |-> config.configToml]>>
                ELSE << >>)
               \o (IF "OPENAI_API_KEY" \in DOMAIN env
                   THEN <<[path |-> CODEX_AUTH, json |-> TRUE,
                           data |-> [api_key |-> env["OPENAI_API_KEY"]]]>>
                   ELSE << >>)
          [] appType = "gemini" ->
               <<[path |-> GEMINI_SETTINGS, json |-> TRUE,
                  data |-> mergeEnv(settings, env)],
                 [path |-> GEMINI_ENV, json |-> FALSE,
                  data |-> envLines(env)]>>
          [] OTHER -> << >>

\* The writes of the call under way, and the one it has reached.
apWrites ==
    applyWrites(ap.settings, ApplyProviders[ap.id], ap.appType)

apWrite == apWrites[ap.k]

\* Where the call goes once write k is complete: to the next write, then
\* (claude) to the assignments to process.env, then it resolves.
afterWrite(k, writes, appType) ==
    IF k < Len(writes) THEN [pc |-> "open", k |-> k + 1]
    ELSE [pc |-> IF appType = "claude" THEN "env" ELSE "done", k |-> k]

\* The server has started with the providers stored and either no
\* application file or the existing ones.
InitApply ==
    /\ cc_providers = ApplyProviders
    /\ cc_prompts = EmptyObj
    /\ providers = EmptyObj
    /\ files \in {EmptyObj, ExistingFiles}
    /\ procEnv = EmptyObj
    /\ imp = NoImport
    /\ res = NoResponse
    /\ req = [r \in Reqs |-> NewReq]
    /\ commits = << >>
    /\ finished = << >>
    /\ simple = NoSimple
    /\ seen = NotSeen
    /\ ap = NoApply
    /\ cc_speed_tests = << >>
    /\ probe = NoProbe
    /\ now = 0
    /\ fetched = NoFetch
    /\ cc_mcp_servers = EmptyObj
    /\ rmw = NoWriters
    /\ dialog = NoDialog
    /\ ws = NoSocket

\* applyProviderConfig(provider, appType) is called, one call at a time:
\* up to the read of the settings file (claude, gemini) or the first write
\* (codex).
ApplyBegin(id, appType) ==
    /\ ap.pc \in {"idle", "done", "failed"}
    /\ LET next == afterWrite(0, applyWrites(EmptyObj, ApplyProviders[id],
                                             appType), appType)
       IN  ap' = [pc |-> IF appType = "codex" THEN next.pc ELSE "read",
                  id |-> id, appType |-> appType, settings |-> EmptyObj,
                  k |-> IF appType = "codex" THEN next.k ELSE 0,
                  before |-> files]
    /\ UNCHANGED <<cc_providers, cc_prompts, fsVars, switchVars, simpleVars,
                   imp, res, cc_speed_tests, probe, idleVars>>

\* readJsonFile returns the settings document ({} when it cannot be read).
ApplyRead ==
    /\ ap.pc = "read"
    /\ LET settings == readJsonFile(files, settingsPath(ap.appType))
           next == afterWrite(0, applyWrites(settings, ApplyProviders[ap.id],
                                             ap.appType), ap.appType)
       IN  ap' = [ap EXCEPT !.pc = next.pc, !.k = next.k,
                            !.settings = settings]
    /\ UNCHANGED <<cc_providers, cc_prompts, fsVars, switchVars, simpleVars,
                   imp, res, cc_speed_tests, probe, idleVars>>

\* fs.writeFile opens its file, which truncates it: the temporary file for
\* writeJsonFile, the target itself otherwise.
ApplyOpen ==
    /\ ap.pc = "open"
    /\ LET filePath == IF apWrite.json THEN tempFile(apWrite.path)
                       ELSE apWrite.path
       IN  files' = writeFile(files, filePath, truncated(apWrite.path))
    /\ ap' = [ap EXCEPT !.pc = "fill"]
    /\ UNCHANGED <<cc_providers, cc_prompts, procEnv, switchVars, simpleVars,
                   imp, res, cc_speed_tests, probe, idleVars>>

\* fs.writeFile writes the content and resolves; after a direct write the
\* call goes on, after a write of the temporary file the rename is next.
ApplyFill ==
    /\ ap.pc = "fill"
    /\ LET filePath == IF apWrite.json THEN tempFile(apWrite.path)
                       ELSE apWrite.path
           next == afterWrite(ap.k, apWrites, ap.appType)
       IN  /\ files' = writeFile(files, filePath, apWrite.data)
           /\ ap' = IF apWrite.json THEN [ap EXCEPT !.pc = "rename"]
                    ELSE [ap EXCEPT !.pc = next.pc, !.k = next.k]
    /\ UNCHANGED <<cc_providers, cc_prompts, procEnv, switchVars, simpleVars,
                   imp, res, cc_speed_tests, probe, idleVars>>

\* fs.rename(tempFile, filePath): the target takes the temporary file's
\* content in one step and the temporary file is gone.
ApplyRename ==
    /\ ap.pc = "rename"
    /\ LET tmp == tempFile(apWrite.path)
           next == afterWrite(ap.k, apWrites, ap.appType)
       IN  /\ files' = [p \in (DOMAIN files \cup {apWrite.path}) \ {tmp} |->
                          IF p = apWrite.path THEN files[tmp] ELSE files[p]]
           /\ ap' = [ap EXCEPT !.pc = next.pc, !.k = next.k]
    /\ UNCHANGED <<cc_providers, cc_prompts, procEnv, switchVars, simpleVars,
                   imp, res, cc_speed_tests, probe, idleVars>>

\* The assignments to process.env made before a write as well.
envDueEarly(a) == a.pc \in {"open", "env"}

\* The assignments to process.env are due: the writes are done.
envDue(a) == a.pc = "env"

\* for (const [key, value] of Object.entries(env)) process.env[key] = value,
\* after which the call resolves.
ApplyEnv ==
    /\ envDue(ap)
    /\ procEnv' = applyEnv(procEnv, ApplyProviders[ap.id], ap.appType)
    /\ ap' = [ap EXCEPT !.pc = "done"]
    /\ UNCHANGED <<cc_providers, cc_prompts, files, switchVars, simpleVars,
                   imp, res, cc_speed_tests, probe, idleVars>>

\* A file system call rejects (no space, no permission): the call rejects
\* with the files as they are at that point.
ApplyFail ==
    /\ ap.pc \in {"open", "fill", "rename"}
    /\ ap' = [ap EXCEPT !.pc = "failed"]
    /\ UNCHANGED <<cc_providers, cc_prompts, fsVars, switchVars, simpleVars,
                   imp, res, cc_speed_tests, probe, idleVars>>

\* The process is interrupted (killed, power loss) while the call is under
\* way; nothing more is written.
ApplyInterrupt ==
    /\ ap.pc \in {"read", "open", "fill", "rename", "env"}
    /\ ap' = [ap EXCEPT !.pc = "crashed"]
    /\ UNCHANGED <<cc_providers, cc_prompts, fsVars, switchVars, simpleVars,
                   imp, res, cc_speed_tests, probe, idleVars>>

\* The callers pass the provider's own app type here.
NextApply ==
    \/ \E id \in DOMAIN ApplyProviders :
          ApplyBegin(id, ApplyProviders[id].app_type)
    \/ ApplyRead
    \/ ApplyOpen
    \/ ApplyFill
    \/ ApplyRename
    \/ ApplyEnv
    \/ ApplyFail
    \/ ApplyInterrupt

SpecApply == InitApply /\ [][NextApply]_vars

(***************************************************************************)
(* Masking of credentials in GET /providers and GET /env                   *)
(***************************************************************************)

\* Strings whose characters the handlers look at are sequences of
\* characters; an env object is the sequence of its [key, value] entries
\* in insertion order, which is the order Object.keys walks.
TOKEN == <<"T", "O", "K", "E", "N">>
KEY == <<"K", "E", "Y">>
SECRET == <<"S", "E", "C", "R", "E", "T">>
URL == <<"U", "R", "L">>
MASKED == <<"_", "M", "A", "S", "K", "E", "D">>
DOTS == <<".", ".", ".">>

\* Keys a stored env has: credential names, a key that is another key
\* followed by _MASKED, a name in lower case, and a name of no credential.
MaskKeys == {KEY, KEY \o MASKED, TOKEN, <<"s", "e", "c", "r", "e", "t">>, URL}

\* Values of 0, 12 and 13 characters.
MaskValues ==
    {<< >>,
     <<"s", "k", "-", "a", "b", "c", "d", "e", "f", "g", "h", "i">>,
     <<"s", "k", "-", "a", "b", "c", "d", "e", "f", "g", "h", "i", "j">>}

\* Most entries a stored env has.
MaxEnv == 2

\* The env objects: entries with distinct keys.
MaskInputs ==
    {obj \in UNION {[1..n -> MaskKeys \X MaskValues] : n \in 0..MaxEnv} :
        \A i, j \in 1..Len(obj) : obj[i][1] = obj[j][1] => i = j}

\* key.includes(part).
includes(key, part) ==
    \E i \in 1..(Len(key) - Len(part) + 1) :
        SubSeq(key, i, i + Len(part) - 1) = part

\* key.includes('TOKEN') || key.includes('KEY') || key.includes('SECRET').
isCredential(key) ==
    includes(key, TOKEN) \/ includes(key, KEY) \/ includes(key, SECRET)

\* value.substring(0, 8) + '...' + value.substring(value.length - 4).
maskValue(value) ==
    SubSeq(value, 1, 8) \o DOTS \o SubSeq(value, Len(value) - 3, Len(value))

\* key in obj, obj[key], obj[key] = value and delete obj[key] on an object.
hasKey(obj, key) == \E i \in 1..Len(obj) : obj[i][1] = key

getKey(obj, key) == obj[CHOOSE i \in 1..Len(obj) : obj[i][1] = key][2]

setEntry(obj, key, value) ==
    IF hasKey(obj, key)
    THEN [i \in 1..Len(obj) |->
            IF obj[i][1] = key THEN <<key, value>> ELSE obj[i]]
    ELSE Append(obj, <<key, value>>)

deleteEntry(obj, key) == SelectSeq(obj, LAMBDA entry : entry[1] # key)

\* Object.keys(obj).
objectKeys(obj) == [i \in 1..Len(obj) |-> obj[i][1]]

\* The loop of GET /providers over Object.keys(maskedConfig.env), taken
\* before the loop: a credential key with a value of more than 12
\* characters is deleted and key + '_MASKED' is assigned on the same object.
RECURSIVE maskLoop(_, _)
maskLoop(obj, keys) ==
    IF keys = << >> THEN obj
    ELSE LET key == Head(keys)
             value == getKey(obj, key)
         IN  IF isCredential(key) /\ Len(value) > 12
             THEN maskLoop(deleteEntry(setEntry(obj, key \o MASKED,
                                                maskValue(value)), key),
                           Tail(keys))
             ELSE maskLoop(obj, Tail(keys))

\* maskedConfig.env after the loop, on a copy of the stored env.
maskEnv(env) == maskLoop(env, objectKeys(env))

\* safeEnv of GET /env: a credential keeps its key and gets the masked
\* value when longer than 12 characters and is left out otherwise; any
\* other entry is copied.
RECURSIVE safeEnv(_)
safeEnv(env) ==
    IF env = << >> THEN << >>
    ELSE LET key == Head(env)[1]
             value == Head(env)[2]
         IN  IF isCredential(key)
             THEN IF Len(value) > 12
                  THEN <<<<key, maskValue(value)>>>> \o safeEnv(Tail(env))
                  ELSE safeEnv(Tail(env))
             ELSE <<Head(env)>> \o safeEnv(Tail(env))

\* One claude provider is stored, current, with one of the env objects.
InitMask ==
    /\ \E env \in MaskInputs :
          cc_providers =
              ("A" :> [name |-> "Relay", app_type |-> "claude",
                       settings_config |-> [env |-> env, configToml |-> ""],
                       is_current |-> TRUE])
    /\ cc_prompts = EmptyObj
    /\ providers = EmptyObj
    /\ AtRest

\* ccProvidersDb.getAll(appType): the ids of the rows of the app type (each
\* row is returned with its settings_config parsed anew).
ccProvidersDb_getAll(rows, appType) ==
    {i \in DOMAIN rows : rows[i].app_type = appType}

\* A GET /providers that stored the masked copy back into the rows it read.
GetProvidersSavingMask(appType) ==
    /\ res' = [op |-> "GET /providers", status |-> 200,
               body |-> [i \in ccProvidersDb_getAll(cc_providers, appType) |->
                           maskEnv(cc_providers[i].settings_config.env)]]
    /\ cc_providers' =
          [i \in DOMAIN cc_providers |->
              IF cc_providers[i].app_type = appType
              THEN [cc_providers[i] EXCEPT
                      !.settings_config.env = maskEnv(@)]
              ELSE cc_providers[i]]
    /\ UNCHANGED <<restVars, cc_prompts, fsVars, switchVars, simpleVars, imp>>

\* GET /providers?app=appType: every provider of the app type with the
\* masked copy of its env; the copy is built on a spread of the parsed row.
GetProviders(appType) ==
    /\ res' = [op |-> "GET /providers", status |-> 200,
               body |-> [i \in ccProvidersDb_getAll(cc_providers, appType) |->
                           maskEnv(cc_providers[i].settings_config.env)]]
    /\ UNCHANGED <<restVars, cc_providers, cc_prompts, fsVars, switchVars,
                   simpleVars, imp>>

\* GET /env?app=appType: safeEnv of the provider getCurrent returns (LIMIT
\* 1: any current provider of the app type), {} when there is none.
GetEnv(appType) ==
    /\ IF CurrentIds(cc_providers, appType) = {}
       THEN res' = [op |-> "GET /env", status |-> 200, body |-> << >>]
       ELSE \E i \in CurrentIds(cc_providers, appType) :
               res' = [op |-> "GET /env", status |-> 200,
                       body |-> safeEnv(cc_providers[i].settings_config.env)]
    /\ UNCHANGED <<restVars, cc_providers, cc_prompts, fsVars, switchVars,
                   simpleVars, imp>>

NextMask ==
    \/ \E appType \in Apps : GetProviders(appType)
    \/ \E appType \in Apps : GetEnv(appType)

SpecMask == InitMask /\ [][NextMask]_vars

(***************************************************************************)
(* Credentials the responses of GET /providers and GET /env must hide      *)
(***************************************************************************)

\* Keys of a stored env: credential names, a key that ends in _MASKED, and
\* a name of no credential.
SecretKeys == {TOKEN, SECRET, KEY \o MASKED, URL}

\* Values of 12 characters and of 13, the latter two alike but for their
\* ninth character, the one between the first 8 and the last 4.
SecretValues ==
    {<<"s", "k", "-", "a", "b", "c", "d", "e", "f", "g", "h", "i">>,
     <<"s", "k", "-", "a", "b", "c", "d", "e", "f", "g", "h", "i", "j">>,
     <<"s", "k", "-", "a", "b", "c", "d", "e", "X", "g", "h", "i", "j">>}

SecretInputs ==
    {obj \in UNION {[1..n -> SecretKeys \X SecretValues] : n \in 0..MaxEnv} :
        \A i, j \in 1..Len(obj) : obj[i][1] = obj[j][1] => i = j}

\* value.substring(0, 8) + '...' + value.substring(value.length - 4) on a
\* value of any length.
substringMask(value) ==
    SubSeq(value, 1, IF Len(value) < 8 THEN Len(value) ELSE 8) \o DOTS
    \o SubSeq(value, IF Len(value) < 4 THEN 1 ELSE Len(value) - 3, Len(value))

\* safeEnv of GET /env of the legacy route module: the value of a key that
\* includes TOKEN or KEY is masked whatever its length, any other entry is
\* copied.
RECURSIVE legacySafeEnv(_)
legacySafeEnv(env) ==
    IF env = << >> THEN << >>
    ELSE LET key == Head(env)[1]
             value == Head(env)[2]
         IN  IF includes(key, TOKEN) \/ includes(key, KEY)
             THEN <<<<key, substringMask(value)>>>> \o legacySafeEnv(Tail(env))
             ELSE <<Head(env)>> \o legacySafeEnv(Tail(env))

\* One claude provider is stored, current, with one of the env objects, in
\* the table of each route module.
InitSecret ==
    /\ \E env \in SecretInputs :
          /\ cc_providers =
               ("A" :> [name |-> "Relay", app_type |-> "claude",
                        settings_config |-> [env |-> env, configToml |-> ""],
                        is_current |-> TRUE])
          /\ providers = cc_providers
    /\ cc_prompts = EmptyObj
    /\ AtRest

\* GET /env of the legacy route module: safeEnv of the current claude
\* provider of the table providers (LIMIT 1), {} when there is none.
GetEnvLegacy ==
    /\ IF CurrentIds(providers, "claude") = {}
       THEN res' = [op |-> "GET /env (cc-switch.js)", status |-> 200,
                    body |-> << >>]
       ELSE \E i \in CurrentIds(providers, "claude") :
               res' = [op |-> "GET /env (cc-switch.js)", status |-> 200,
                       body |-> legacySafeEnv(providers[i].settings_config.env)]
    /\ UNCHANGED <<restVars, cc_providers, cc_prompts, fsVars, switchVars,
                   simpleVars, imp>>

NextSecret ==
    \/ GetProviders("claude")
    \/ GetEnv("claude")
    \/ GetEnvLegacy

SpecSecret == InitSecret /\ [][NextSecret]_vars

(***************************************************************************)
(* Speed tests: POST /speed-test and POST /speed-test/all                  *)
(***************************************************************************)

\* What the HEAD request of a probe ends in: a response with an HTTP status,
\* the AbortError of controller.abort() after 10000 ms, or any other error
\* fetch rejects with (DNS, connection refused, TLS).
Responded(httpStatus) == [kind |-> "response", httpStatus |-> httpStatus]
AbortError == [kind |-> "AbortError", httpStatus |-> 0]
FetchError == [kind |-> "TypeError", httpStatus |-> 0]

Outcomes == {Responded(499), Responded(500), AbortError, FetchError}

\* The outcomes of the runs that fill the table.
QuietOutcomes == {Responded(200)}

\* keepCount, the default of ccSpeedTestsDb.cleanup.
keepCount == 10

\* Rows of cc_speed_tests the runs over all outcomes stop at.
MaxProbeRows == 2

\* Rows of cc_speed_tests the runs that fill the table stop at.
MaxRetentionRows == keepCount + 1

\* httpStatus as the handlers leave it: response.status, 0 when fetch threw.
httpStatusOf(outcome) == outcome.httpStatus

\* status of POST /speed-test.
statusOfSpeedTest(outcome) ==
    IF outcome.kind = "response"
    THEN IF outcome.httpStatus < 500 THEN "operational" ELSE "degraded"
    ELSE IF outcome.kind = "AbortError" THEN "degraded" ELSE "failed"

\* status of one provider of POST /speed-test/all: its catch has no binding
\* and sets 'failed' whatever was thrown.
statusOfSpeedTestAll(outcome) ==
    IF outcome.kind = "response"
    THEN IF outcome.httpStatus < 500 THEN "operational" ELSE "degraded"
    ELSE "failed"

\* env[key], "" (falsy, as undefined is) when env has no such key.
envOr(env, key) == IF key \in DOMAIN env THEN env[key] ELSE ""

\* a || b on strings.
orElse(a, b) == IF a # "" THEN a ELSE b

\* A url as the string base + path.
Url(base, path) == [base |-> base, path |-> path]

\* The HEAD request of POST /speed-test: testUrl and the apiKey || '' of
\* its two headers, resolved from the provider's env and the app of the
\* request.
testTarget(env, app) ==
    IF app = "codex"
    THEN [url |-> IF envOr(env, "OPENAI_BASE_URL") # ""
                  THEN Url(envOr(env, "OPENAI_BASE_URL"), "")
                  ELSE Url("https://api.openai.com", "/v1/chat/completions"),
          apiKey |-> envOr(env, "OPENAI_API_KEY")]
    ELSE IF app = "gemini"
    THEN [url |-> IF envOr(env, "GOOGLE_GEMINI_BASE_URL") # ""
                  THEN Url(envOr(env, "GOOGLE_GEMINI_BASE_URL"), "")
                  ELSE Url("https://generativelanguage.googleapis.com",
                           "/v1beta/models"),
          apiKey |-> envOr(env, "GOOGLE_API_KEY")]
    ELSE [url |-> IF envOr(env, "ANTHROPIC_BASE_URL") # ""
                  THEN Url(envOr(env, "ANTHROPIC_BASE_URL"), "/v1/messages")
                  ELSE Url("https://api.anthropic.com", "/v1/messages"),
          apiKey |-> orElse(envOr(env, "ANTHROPIC_AUTH_TOKEN"),
                            envOr(env, "ANTHROPIC_API_KEY"))]

\* The HEAD request of one provider of POST /speed-test/all: the loop
\* resolves the Anthropic endpoint and key whatever app is.
testTargetAll(env) ==
    [url |-> IF envOr(env, "ANTHROPIC_BASE_URL") # ""
             THEN Url(envOr(env, "ANTHROPIC_BASE_URL"), "/v1/messages")
             ELSE Url("https://api.anthropic.com", "/v1/messages"),
     apiKey |-> orElse(envOr(env, "ANTHROPIC_AUTH_TOKEN"),
                       envOr(env, "ANTHROPIC_API_KEY"))]

\* ccSpeedTestsDb.save: one INSERT, tested_at defaulting to
\* CURRENT_TIMESTAMP.  The table is kept in the order of its AUTOINCREMENT
\* ids, which are never reused: a row is known by its position.
ccSpeedTestsDb_save(rows, providerId, appType, httpStatus, status) ==
    Append(rows, [provider_id |-> providerId, app_type |-> appType,
                  http_status |-> httpStatus, status |-> status,
                  tested_at |-> now])

\* A save that met no foreign key.
saveNeverThrows(rows, providerId) == FALSE

\* ccSpeedTestsDb.save throws when no row of cc_providers has the id:
\* FOREIGN KEY (provider_id) REFERENCES cc_providers(id).
ccSpeedTestsDb_saveThrows(rows, providerId) == providerId \notin DOMAIN rows

\* The rows of one provider.
RowsOf(rows, providerId) ==
    {n \in DOMAIN rows : rows[n].provider_id = providerId}

\* A settings_config with an endpoint of its own.
CfgProxy ==
    [env |-> ("ANTHROPIC_API_KEY" :> "sk-ant-proxy")
             @@ ("ANTHROPIC_BASE_URL" :> "https://proxy.example"),
     configToml |-> ""]

\* The providers the probes run against: B reaches Anthropic by a proxy.
ProbeProviders == [StoredProviders EXCEPT !["B"].settings_config = CfgProxy]

InitProbe ==
    /\ cc_providers = ProbeProviders
    /\ cc_prompts = EmptyObj
    /\ providers = EmptyObj
    /\ AtRest

probeRest ==
    <<cc_providers, cc_prompts, fsVars, switchVars, simpleVars, imp, ap,
      now, cc_mcp_servers, clientVars>>

\* A POST /speed-test without the inner catch: what fetch throws reaches the
\* handler's catch, which answers 500 and saves nothing.
PostSpeedTestUncaught(providerId, app, outcome) ==
    /\ IF providerId \notin DOMAIN cc_providers
       THEN /\ res' = [op |-> "POST /speed-test", status |-> 404,
                       result |-> << >>]
            /\ UNCHANGED <<cc_speed_tests, fetched>>
       ELSE /\ fetched' =
                  testTarget(cc_providers[providerId].settings_config.env, app)
            /\ IF outcome.kind = "response"
               THEN /\ cc_speed_tests' =
                          ccSpeedTestsDb_save(cc_speed_tests, providerId, app,
                                              httpStatusOf(outcome),
                                              statusOfSpeedTest(outcome))
                    /\ res' = [op |-> "POST /speed-test", status |-> 200,
                               result |->
                                  [providerId |-> providerId,
                                   status |-> statusOfSpeedTest(outcome),
                                   httpStatus |-> httpStatusOf(outcome)]]
               ELSE /\ res' = [op |-> "POST /speed-test", status |-> 500,
                               result |-> << >>]
                    /\ UNCHANGED cc_speed_tests
    /\ UNCHANGED <<probeRest, probe>>

\* POST /speed-test {providerId, app}: 404 when getById finds no row (app
\* plays no part in the lookup); else the fetch, whose every failure the
\* inner catch turns into a status, then save and the result.
PostSpeedTest(providerId, app, outcome) ==
    /\ IF providerId \notin DOMAIN cc_providers
       THEN /\ res' = [op |-> "POST /speed-test", status |-> 404,
                       result |-> << >>]
            /\ UNCHANGED <<cc_speed_tests, fetched>>
       ELSE /\ fetched' =
                  testTarget(cc_providers[providerId].settings_config.env, app)
            /\ cc_speed_tests' =
                  ccSpeedTestsDb_save(cc_speed_tests, providerId, app,
                                      httpStatusOf(outcome),
                                      statusOfSpeedTest(outcome))
            /\ res' = [op |-> "POST /speed-test", status |-> 200,
                       result |-> [providerId |-> providerId,
                                   status |-> statusOfSpeedTest(outcome),
                                   httpStatus |-> httpStatusOf(outcome)]]
    /\ UNCHANGED <<probeRest, probe>>

\* POST /speed-test/all {app}: getAll(app), read once before the loop.
PostSpeedTestAllBegin(app) ==
    /\ probe.pc = "idle"
    /\ probe' = [pc |-> "loop", app |-> app,
                 providers |-> [id \in ccProvidersDb_getAll(cc_providers, app)
                                  |-> cc_providers[id]],
                 left |-> ccProvidersDb_getAll(cc_providers, app),
                 results |-> {}]
    /\ UNCHANGED <<probeRest, cc_speed_tests, res, fetched>>

\* One turn of the loop: the fetch of the next provider, awaited, then its
\* save, which does not throw, and results.push.  The rows come ordered by sort_index and
\* created_at, which the model does not hold: any provider left may be the
\* next.
PostSpeedTestAllProbe(outcome) ==
    /\ probe.pc = "loop"
    /\ \E id \in probe.left :
          /\ ~ccSpeedTestsDb_saveThrows(cc_providers, id)
          /\ fetched' = testTargetAll(probe.providers[id].settings_config.env)
          /\ cc_speed_tests' =
                ccSpeedTestsDb_save(cc_speed_tests, id, probe.app,
                                    httpStatusOf(outcome),
                                    statusOfSpeedTestAll(outcome))
          /\ probe' = [probe EXCEPT !.left = @ \ {id},
                                    !.results = @ \cup {id}]
    /\ UNCHANGED <<probeRest, res>>

\* A turn of the loop whose save throws (the provider was deleted while
\* the loop ran, the database is busy or full): the throw leaves the loop
\* for the handler's catch, which answers 500.
PostSpeedTestAllSaveFails ==
    /\ probe.pc = "loop"
    /\ \E id \in probe.left :
          fetched' = testTargetAll(probe.providers[id].settings_config.env)
    /\ probe' = NoProbe
    /\ res' = [op |-> "POST /speed-test/all", status |-> 500,
               result |-> {}]
    /\ UNCHANGED <<probeRest, cc_speed_tests>>

\* The loop is over: res.json({ success: true, results }).
PostSpeedTestAllEnd ==
    /\ probe.pc = "loop"
    /\ probe.left = {}
    /\ probe' = NoProbe
    /\ res' = [op |-> "POST /speed-test/all", status |-> 200,
               result |-> probe.results]
    /\ UNCHANGED <<probeRest, cc_speed_tests, fetched>>

\* The providers and the app the runs that fill the table ask for.
QuietIds == {"A", "D"}
QuietApps == {"claude"}

\* The requests that name the providers ids and the apps apps, with the
\* fetches ending in each of outcomes, while the table holds fewer than
\* maxRows rows.
NextSpeedTest(ids, apps, outcomes, maxRows) ==
    \/ /\ Len(cc_speed_tests) < maxRows
       /\ \E providerId \in ids, app \in apps, outcome \in outcomes :
             PostSpeedTest(providerId, app, outcome)
    \/ \E app \in apps : PostSpeedTestAllBegin(app)
    \/ /\ Len(cc_speed_tests) < maxRows
       /\ \E outcome \in outcomes : PostSpeedTestAllProbe(outcome)
    \/ PostSpeedTestAllSaveFails
    \/ PostSpeedTestAllEnd

\* The providers POST /speed-test is asked for: a claude one, a codex one
\* and one no row has (B is probed by POST /speed-test/all).
ProbeIds == {"A", "C", "D"}

NextProbe == NextSpeedTest(ProbeIds, Apps, Outcomes, MaxProbeRows)

SpecProbe == InitProbe /\ [][NextProbe]_vars

NextRetention ==
    NextSpeedTest(QuietIds, QuietApps, QuietOutcomes, MaxRetentionRows)

SpecRetention == InitProbe /\ [][NextRetention]_vars

(***************************************************************************)
(* Speed tests while providers are deleted and created                     *)
(***************************************************************************)

\* Rows of cc_speed_tests the runs with deletes stop at.
MaxIntegrityRows == 3

\* The provider the runs with deletes create again.
RecreatedBody ==
    [id |-> "A", name |-> "Relay", app_type |-> "claude",
     settings_config |-> CfgAnthropic, is_current |-> FALSE]

NextIntegrity ==
    \/ /\ Len(cc_speed_tests) < MaxIntegrityRows
       /\ \E providerId \in QuietIds, app \in QuietApps,
             outcome \in QuietOutcomes :
             PostSpeedTest(providerId, app, outcome)
    \/ \E app \in QuietApps : PostSpeedTestAllBegin(app)
    \/ /\ Len(cc_speed_tests) < MaxIntegrityRows
       /\ \E outcome \in QuietOutcomes : PostSpeedTestAllProbe(outcome)
    \/ PostSpeedTestAllSaveFails
    \/ PostSpeedTestAllEnd
    \/ \E id \in Ids : DeleteProvidersId(id)
    \/ PostProviders(RecreatedBody)

SpecIntegrity == InitProbe /\ [][NextIntegrity]_vars

(***************************************************************************)
(* ccSpeedTestsDb.cleanup                                                  *)
(***************************************************************************)

\* Rows of cc_speed_tests the runs with cleanup stop at.
MaxCleanupRows == 4

\* The keepCount values cleanup is called with: 0..MaxKeep.
MaxKeep == 2

\* The seconds CURRENT_TIMESTAMP advances by.
MaxClock == 2

\* The providers the runs with cleanup probe.
CleanupIds == {"A", "B"}

\* The positions of rows taken in order, those not in S left out.
subSeq(rows, S) ==
    LET pick[n \in 0..Len(rows)] ==
            IF n = 0 THEN << >>
            ELSE IF n \in S THEN Append(pick[n - 1], rows[n])
            ELSE pick[n - 1]
    IN  pick[Len(rows)]

\* A cleanup that numbered the rows of a provider from the oldest.
rankedOldestFirst(rows, rn) ==
    \A i, j \in DOMAIN rows :
        (/\ rows[i].provider_id = rows[j].provider_id
         /\ rows[i].tested_at < rows[j].tested_at) => rn[i] < rn[j]

\* ORDER BY tested_at DESC: within a partition a later row is numbered
\* before an earlier one.
rankedByTestedAt(rows, rn) ==
    \A i, j \in DOMAIN rows :
        (/\ rows[i].provider_id = rows[j].provider_id
         /\ rows[i].tested_at > rows[j].tested_at) => rn[i] < rn[j]

\* ROW_NUMBER() OVER (PARTITION BY provider_id ORDER BY tested_at DESC): the
\* rows of each provider numbered 1, 2, ... in that order.  Rows of equal
\* tested_at may come in either order, so there are several numberings.
RowNumbers(rows) ==
    {rn \in [DOMAIN rows -> 1..Len(rows)] :
        /\ \A i \in DOMAIN rows :
              rn[i] <= Cardinality(RowsOf(rows, rows[i].provider_id))
        /\ \A i, j \in DOMAIN rows :
              (i # j /\ rows[i].provider_id = rows[j].provider_id)
                 => rn[i] # rn[j]
        /\ rankedByTestedAt(rows, rn)}

\* A cleanup that kept one row fewer.
keptBelow(rn, keep) == {i \in DOMAIN rn : rn[i] < keep}

\* WHERE rn <= ?
kept(rn, keep) == {i \in DOMAIN rn : rn[i] <= keep}

\* ccSpeedTestsDb.cleanup(keepCount): DELETE the rows whose id is not among
\* those numbered up to keepCount; every table it may leave.
ccSpeedTestsDb_cleanup(rows, keep) ==
    {subSeq(rows, kept(rn, keep)) : rn \in RowNumbers(rows)}

\* A call of ccSpeedTestsDb.cleanup(keep); changes is what run() returns.
Cleanup(keep) ==
    /\ \E after \in ccSpeedTestsDb_cleanup(cc_speed_tests, keep) :
          /\ cc_speed_tests' = after
          /\ res' = [op |-> "ccSpeedTestsDb.cleanup", status |-> 0,
                     result |-> [keepCount |-> keep,
                                 changes |-> Len(cc_speed_tests) - Len(after)]]
    /\ UNCHANGED <<probeRest, probe, fetched>>

\* A second passes.
Tick ==
    /\ now < MaxClock
    /\ now' = now + 1
    /\ UNCHANGED <<cc_providers, cc_prompts, fsVars, switchVars, simpleVars,
                   imp, res, ap, cc_speed_tests, probe, fetched,
                   cc_mcp_servers, clientVars>>

NextCleanup ==
    \/ /\ Len(cc_speed_tests) < MaxCleanupRows
       /\ \E providerId \in CleanupIds, app \in QuietApps,
             outcome \in QuietOutcomes :
             PostSpeedTest(providerId, app, outcome)
    \/ Tick
    \/ \E keep \in 0..MaxKeep : Cleanup(keep)

SpecCleanup == InitProbe /\ [][NextCleanup]_vars

(***************************************************************************)
(* ccMcpServersDb and its route handlers                                   *)
(***************************************************************************)

\* MCP server ids the requests name.
McpIds == {"m1", "m2"}

\* The enabled values of a body, as JSON: true, false, or the key missing.
Enabled == {"true", "false", UNDEF}

\* enabled ? 1 : 0, as a boolean (getAll reads the column back with !!).
flag(enabled) == enabled = "true"

\* The bodies of POST /mcp and PUT /mcp/:id: a server enabled for claude
\* only, one with no enabled_ key, and one with no name.
McpBodies ==
    {[name |-> "fs", command |-> "npx", enabled_claude |-> "true",
      enabled_codex |-> UNDEF, enabled_gemini |-> UNDEF],
     [name |-> "fs", command |-> "npx", enabled_claude |-> UNDEF,
      enabled_codex |-> UNDEF, enabled_gemini |-> UNDEF],
     [name |-> UNDEF, command |-> "npx", enabled_claude |-> "true",
      enabled_codex |-> UNDEF, enabled_gemini |-> UNDEF]}

\* The app values of a toggle body: the three apps and one that is none.
ToggleApps == Apps \cup {"cursor"}

\* ccMcpServersDb.upsert: INSERT ... ON CONFLICT(id) DO UPDATE of every
\* column from the server given.
ccMcpServersDb_upsert(rows, id, server) ==
    LET row == [name |-> server.name, command |-> server.command,
                enabled_claude |-> flag(server.enabled_claude),
                enabled_codex |-> flag(server.enabled_codex),
                enabled_gemini |-> flag(server.enabled_gemini)]
    IN  IF id \in DOMAIN rows
        THEN [rows EXCEPT ![id] = row]
        ELSE rows @@ (id :> row)

\* ccMcpServersDb.delete: the rows without id.
ccMcpServersDb_delete(rows, id) ==
    [i \in DOMAIN rows \ {id} |-> rows[i]]

\* A toggleApp that wrote the value into all three columns.
toggleAllApps(rows, id, appType, enabled) ==
    IF id \notin DOMAIN rows THEN rows
    ELSE [rows EXCEPT ![id].enabled_claude = flag(enabled),
                      ![id].enabled_codex = flag(enabled),
                      ![id].enabled_gemini = flag(enabled)]

\* ccMcpServersDb.toggleApp: UPDATE cc_mcp_servers SET enabled_<appType> = ?
\* WHERE id = ?; no row is written when none has the id.
ccMcpServersDb_toggleApp(rows, id, appType, enabled) ==
    IF id \notin DOMAIN rows THEN rows
    ELSE IF appType = "claude"
         THEN [rows EXCEPT ![id].enabled_claude = flag(enabled)]
    ELSE IF appType = "codex"
         THEN [rows EXCEPT ![id].enabled_codex = flag(enabled)]
    ELSE [rows EXCEPT ![id].enabled_gemini = flag(enabled)]

InitMcp ==
    /\ cc_providers = EmptyObj
    /\ cc_prompts = EmptyObj
    /\ providers = EmptyObj
    /\ AtRest

mcpRest ==
    <<cc_providers, cc_prompts, fsVars, switchVars, simpleVars, imp, ap,
      cc_speed_tests, probe, now, fetched, clientVars>>

\* POST /mcp: an id of generateId when the body has none, 400 without name
\* or command, else upsert.
PostMcp(id, server) ==
    /\ IF server.name = UNDEF \/ server.command = UNDEF
       THEN /\ res' = Response("POST /mcp", 400)
            /\ UNCHANGED cc_mcp_servers
       ELSE /\ cc_mcp_servers' =
                  ccMcpServersDb_upsert(cc_mcp_servers, id, server)
            /\ res' = Response("POST /mcp", 200)
    /\ UNCHANGED mcpRest

\* PUT /mcp/:id: upsert of the body under the id of the path; a body with
\* no name meets NOT NULL, and the throw becomes a 500.
PutMcp(id, server) ==
    /\ IF server.name = UNDEF \/ server.command = UNDEF
       THEN /\ res' = Response("PUT /mcp/:id", 500)
            /\ UNCHANGED cc_mcp_servers
       ELSE /\ cc_mcp_servers' =
                  ccMcpServersDb_upsert(cc_mcp_servers, id, server)
            /\ res' = Response("PUT /mcp/:id", 200)
    /\ UNCHANGED mcpRest

\* DELETE /mcp/:id: 404 when no row was deleted.
DeleteMcp(id) ==
    /\ cc_mcp_servers' = ccMcpServersDb_delete(cc_mcp_servers, id)
    /\ res' = Response("DELETE /mcp/:id",
                       IF id \in DOMAIN cc_mcp_servers THEN 200 ELSE 404)
    /\ UNCHANGED mcpRest

\* POST /mcp/:id/toggle {app, enabled}: 400 unless app is one of the three,
\* else toggleApp and success, whether or not a row has the id.
PostMcpToggle(id, app, enabled) ==
    /\ IF app \notin {"claude", "codex", "gemini"}
       THEN /\ res' = Response("POST /mcp/:id/toggle", 400)
            /\ UNCHANGED cc_mcp_servers
       ELSE /\ cc_mcp_servers' =
                  ccMcpServersDb_toggleApp(cc_mcp_servers, id, app, enabled)
            /\ res' = Response("POST /mcp/:id/toggle", 200)
    /\ UNCHANGED mcpRest

NextMcp ==
    \/ \E id \in McpIds, server \in McpBodies : PostMcp(id, server)
    \/ \E id \in McpIds, server \in McpBodies : PutMcp(id, server)
    \/ \E id \in McpIds : DeleteMcp(id)
    \/ \E id \in McpIds, app \in ToggleApps, enabled \in Enabled :
          PostMcpToggle(id, app, enabled)

SpecMcp == InitMcp /\ [][NextMcp]_vars

(***************************************************************************)
(* The handlers that rewrite ~/.claude/settings.json, file operation by    *)
(* file operation                                                          *)
(***************************************************************************)

\* The stores when the handlers are called: the providers, a prompt and an
\* MCP server enabled for claude.
StoredPrompts ==
    "P1" :> [name |-> "Reviewer", app_type |-> "claude",
             content |-> "Be terse.", is_enabled |-> FALSE]

StoredServers ==
    "m1" :> [name |-> "fs", command |-> "npx", enabled_claude |-> TRUE,
             enabled_codex |-> FALSE, enabled_gemini |-> FALSE]

\* The settings file is absent or holds keys of its own.
InitSettings ==
    /\ cc_providers = StoredProviders
    /\ cc_prompts = StoredPrompts
    /\ providers = EmptyObj
    /\ files \in {EmptyObj,
                  CLAUDE_SETTINGS :> ExistingFiles[CLAUDE_SETTINGS]}
    /\ procEnv = EmptyObj
    /\ imp = NoImport
    /\ res = NoResponse
    /\ req = [r \in Reqs |-> NewReq]
    /\ commits = << >>
    /\ finished = << >>
    /\ simple = NoSimple
    /\ seen = NotSeen
    /\ ap = NoApply
    /\ cc_speed_tests = << >>
    /\ probe = NoProbe
    /\ now = 0
    /\ fetched = NoFetch
    /\ cc_mcp_servers = StoredServers
    /\ rmw = NoWriters
    /\ dialog = NoDialog
    /\ ws = NoSocket

settingsRest ==
    <<providers, imp, res, switchVars, simple, seen, ap, cc_speed_tests,
      probe, now, fetched, dialog, ws>>

\* ccMcpServersDb.getForApp('claude') and the loop over it: each server's
\* name -> { command, args, env }.
mcpServersOf(rows) ==
    LET ids == {i \in DOMAIN rows : rows[i].enabled_claude}
    IN  [name \in {rows[i].name : i \in ids} |->
            [command |-> rows[CHOOSE i \in ids : rows[i].name = name].command]]

\* The file whose bytes are those of two documents: a second write into an
\* open file that was not truncated in between leaves the longer first
\* document's tail after the second.  JSON.parse throws on it.
Torn == [torn |-> TRUE]

\* readJsonFile on the settings file: {} when the file is absent or does
\* not parse.
readSettings(fs) ==
    IF readJsonFile(fs, CLAUDE_SETTINGS) = Torn THEN EmptyObj
    ELSE readJsonFile(fs, CLAUDE_SETTINGS)

\* What a handler does to the document it read.
modified(w, settings) ==
    CASE w.op = "POST /providers/:id/switch" -> mergeEnv(settings, w.arg)
      [] w.op = "POST /prompts/:id/enable" ->
             setKey(settings, "systemPrompt", w.arg)
      [] w.op = "POST /prompts/disable-all" ->
             deleteKey(settings, "systemPrompt")
      [] w.op = "POST /mcp/sync" -> setKey(settings, "mcpServers", w.arg)

\* POST /providers/:id/switch?app=claude from its start to its first
\* await: getById, switchTo, then applyProviderConfig awaits ensureDir.
SettingsSwitchBegin(id) ==
    /\ rmw["switch"].pc = "new"
    /\ id \in DOMAIN cc_providers
    /\ cc_providers' = ccProvidersDb_switchTo(cc_providers, id, "claude", "none")
    /\ rmw' = [rmw EXCEPT !["switch"] =
                 [@ EXCEPT !.pc = "read", !.op = "POST /providers/:id/switch",
                           !.arg = cc_providers[id].settings_config.env]]
    /\ UNCHANGED <<settingsRest, cc_prompts, cc_mcp_servers, fsVars>>

\* POST /prompts/:id/enable?app=claude from its start: enable, getEnabled,
\* and with no enabled prompt the 200 response at once.
SettingsEnableBegin(id) ==
    /\ rmw["prompt"].pc = "new"
    /\ cc_prompts' = ccPromptsDb_enable(cc_prompts, id, "claude", "none")
    /\ IF EnabledIds(cc_prompts', "claude") # {}
       THEN \E p \in EnabledIds(cc_prompts', "claude") :
               rmw' = [rmw EXCEPT !["prompt"] =
                         [@ EXCEPT !.pc = "read",
                                   !.op = "POST /prompts/:id/enable",
                                   !.arg = cc_prompts'[p].content]]
       ELSE rmw' = [rmw EXCEPT !["prompt"] =
                      [@ EXCEPT !.pc = "done", !.status = 200,
                                !.op = "POST /prompts/:id/enable"]]
    /\ UNCHANGED <<settingsRest, cc_providers, cc_mcp_servers, fsVars>>

\* POST /prompts/disable-all?app=claude from its start: disableAll.
SettingsDisableAllBegin ==
    /\ rmw["prompt"].pc = "new"
    /\ cc_prompts' = ccPromptsDb_disableAll(cc_prompts, "claude")
    /\ rmw' = [rmw EXCEPT !["prompt"] =
                 [@ EXCEPT !.pc = "read", !.op = "POST /prompts/disable-all"]]
    /\ UNCHANGED <<settingsRest, cc_providers, cc_mcp_servers, fsVars>>

\* POST /mcp/sync with app claude from its start: getForApp and the
\* mcpServers object.
SettingsSyncBegin ==
    /\ rmw["mcp"].pc = "new"
    /\ rmw' = [rmw EXCEPT !["mcp"] =
                 [@ EXCEPT !.pc = "read", !.op = "POST /mcp/sync",
                           !.arg = mcpServersOf(cc_mcp_servers)]]
    /\ UNCHANGED <<settingsRest, cc_providers, cc_prompts, cc_mcp_servers,
                   fsVars>>

\* readJsonFile(CLAUDE_SETTINGS) returns and the handler changes the
\* document; writeJsonFile awaits ensureDir.
SettingsRead(w) ==
    /\ rmw[w].pc = "read"
    /\ rmw' = [rmw EXCEPT ![w] =
                 [@ EXCEPT !.pc = "open",
                           !.data = modified(rmw[w], readSettings(files))]]
    /\ UNCHANGED <<settingsRest, cc_providers, cc_prompts, cc_mcp_servers,
                   fsVars>>

\* fs.writeFile(tempFile) opens the temporary file, which creates it or
\* truncates the one that is there.
SettingsOpen(w) ==
    /\ rmw[w].pc = "open"
    /\ files' = writeFile(files, tempFile(CLAUDE_SETTINGS), EmptyObj)
    /\ rmw' = [rmw EXCEPT ![w] =
                 [@ EXCEPT !.pc = "fill", !.fd = tempFile(CLAUDE_SETTINGS)]]
    /\ UNCHANGED <<settingsRest, cc_providers, cc_prompts, cc_mcp_servers,
                   procEnv>>

\* fs.writeFile writes the document into the file it opened and closes it.
\* The file is the one the descriptor refers to: the temporary file, the
\* target once another handler has renamed the temporary file onto it, or
\* no file of any name once the target has been replaced in turn.
SettingsFill(w) ==
    /\ rmw[w].pc = "fill"
    /\ IF rmw[w].fd = "unlinked" THEN UNCHANGED files
       ELSE \E content \in IF files[rmw[w].fd] \in {EmptyObj, rmw[w].data}
                           THEN {rmw[w].data}
                           ELSE {rmw[w].data, Torn} :
               files' = writeFile(files, rmw[w].fd, content)
    /\ rmw' = [rmw EXCEPT ![w] = [@ EXCEPT !.pc = "rename", !.fd = ""]]
    /\ UNCHANGED <<settingsRest, cc_providers, cc_prompts, cc_mcp_servers,
                   procEnv>>

\* The open descriptors after rename(tempFile, target).
followed(fd) ==
    CASE fd = tempFile(CLAUDE_SETTINGS) -> CLAUDE_SETTINGS
      [] fd = CLAUDE_SETTINGS -> "unlinked"
      [] OTHER -> fd

\* fs.rename(tempFile, target) rejects with ENOENT when no file has the
\* temporary name.
renameRejects(fs) == tempFile(CLAUDE_SETTINGS) \notin DOMAIN fs

\* fs.rename(tempFile, target), then the rest of the handler: the
\* assignments to process.env of a switch and the 200 response, or the
\* catch and its 500 response when the rename rejects.
SettingsRename(w) ==
    /\ rmw[w].pc = "rename"
    /\ IF renameRejects(files)
       THEN /\ rmw' = [rmw EXCEPT ![w] =
                         [@ EXCEPT !.pc = "done", !.status = 500]]
            /\ UNCHANGED fsVars
       ELSE /\ files' = [p \in (DOMAIN files \cup {CLAUDE_SETTINGS})
                                  \ {tempFile(CLAUDE_SETTINGS)} |->
                           IF p = CLAUDE_SETTINGS
                           THEN files[tempFile(CLAUDE_SETTINGS)]
                           ELSE files[p]]
            /\ procEnv' = IF w = "switch" THEN spread(procEnv, rmw[w].arg)
                          ELSE procEnv
            /\ rmw' = [v \in Writers |->
                         IF v = w
                         THEN [rmw[v] EXCEPT !.pc = "done", !.status = 200]
                         ELSE [rmw[v] EXCEPT !.fd = followed(@)]]
    /\ UNCHANGED <<settingsRest, cc_providers, cc_prompts, cc_mcp_servers>>

NextSettings ==
    \/ \E id \in {"A", "B"} : SettingsSwitchBegin(id)
    \/ \E id \in DOMAIN StoredPrompts : SettingsEnableBegin(id)
    \/ SettingsDisableAllBegin
    \/ SettingsSyncBegin
    \/ \E w \in Writers : SettingsRead(w)
    \/ \E w \in Writers : SettingsOpen(w)
    \/ \E w \in Writers : SettingsFill(w)
    \/ \E w \in Writers : SettingsRename(w)

SpecSettings == InitSettings /\ [][NextSettings]_vars

(***************************************************************************)
(* The provider dialog of the settings page (ProviderSwitchContent)        *)
(***************************************************************************)

\* `${envKey}_BASE_URL` and the other keys of the form, by active app.
EnvKeys ==
    [claude |-> [BASE_URL |-> "ANTHROPIC_BASE_URL",
                 API_KEY |-> "ANTHROPIC_API_KEY",
                 AUTH_TOKEN |-> "ANTHROPIC_AUTH_TOKEN",
                 MODEL |-> "ANTHROPIC_MODEL"],
     codex |-> [BASE_URL |-> "OPENAI_BASE_URL",
                API_KEY |-> "OPENAI_API_KEY",
                AUTH_TOKEN |-> "OPENAI_AUTH_TOKEN",
                MODEL |-> "OPENAI_MODEL"],
     gemini |-> [BASE_URL |-> "GOOGLE_BASE_URL",
                 API_KEY |-> "GOOGLE_API_KEY",
                 AUTH_TOKEN |-> "GOOGLE_AUTH_TOKEN",
                 MODEL |-> "GOOGLE_MODEL"]]

\* What the user types into a field of the form.
TypedNames == {"", "Mirror"}
TypedBaseUrls == {"https://mirror"}
TypedApiKeys == {"sk-new"}
TypedModels == {"opus"}

CfgRelay ==
    [env |-> ("ANTHROPIC_BASE_URL" :> "https://relay")
             @@ ("ANTHROPIC_AUTH_TOKEN" :> "sk-ant-relay"),
     configToml |-> ""]

\* The store the page is opened on: a claude provider with a base URL and
\* a token, which is current, and a codex provider with a key.
DialogProviders ==
    ("A" :> [name |-> "Relay", app_type |-> "claude",
             settings_config |-> CfgRelay, is_current |-> TRUE])
    @@ ("C" :> [name |-> "OpenAI", app_type |-> "codex",
                settings_config |-> CfgOpenai, is_current |-> FALSE])

InitDialog ==
    /\ cc_providers = DialogProviders
    /\ cc_prompts = EmptyObj
    /\ providers = EmptyObj
    /\ AtRest

dialogRest ==
    <<cc_prompts, fsVars, switchVars, simpleVars, imp, ap, cc_speed_tests,
      probe, now, fetched, cc_mcp_servers, rmw, ws>>

\* A tab of the app selector is clicked (the dialog, an overlay, is closed).
SetActiveApp(app) ==
    /\ ~dialog.open
    /\ dialog' = [dialog EXCEPT !.activeApp = app]
    /\ UNCHANGED <<dialogRest, cc_providers, res>>

\* The add button: resetForm(); setShowDialog(true).
OpenAddDialog ==
    /\ ~dialog.open
    /\ dialog' = [NoDialog EXCEPT !.open = TRUE,
                                  !.activeApp = dialog.activeApp]
    /\ UNCHANGED <<dialogRest, cc_providers, res>>

\* openEditDialog(provider) on a provider of the list, which is that of
\* GET /providers?app=activeApp: base URL and model from the env, the key
\* field empty.
openEditDialog(d, id, provider) ==
    LET env == provider.settings_config.env
        keys == EnvKeys[d.activeApp]
    IN  [d EXCEPT !.open = TRUE, !.editing = id,
                  !.name = provider.name,
                  !.baseUrl = envOr(env, keys.BASE_URL),
                  !.apiKey = "",
                  !.model = envOr(env, keys.MODEL)]

OpenEditDialog(id) ==
    /\ ~dialog.open
    /\ id \in ccProvidersDb_getAll(cc_providers, dialog.activeApp)
    /\ dialog' = openEditDialog(dialog, id, cc_providers[id])
    /\ UNCHANGED <<dialogRest, cc_providers, res>>

\* The onChange handlers of the form's inputs.
TypeName(value) ==
    /\ dialog.open
    /\ dialog' = [dialog EXCEPT !.name = value]
    /\ UNCHANGED <<dialogRest, cc_providers, res>>

TypeBaseUrl(value) ==
    /\ dialog.open
    /\ dialog' = [dialog EXCEPT !.baseUrl = value]
    /\ UNCHANGED <<dialogRest, cc_providers, res>>

TypeApiKey(value) ==
    /\ dialog.open
    /\ dialog' = [dialog EXCEPT !.apiKey = value]
    /\ UNCHANGED <<dialogRest, cc_providers, res>>

TypeModel(value) ==
    /\ dialog.open
    /\ dialog' = [dialog EXCEPT !.model = value]
    /\ UNCHANGED <<dialogRest, cc_providers, res>>

\* The cancel and close buttons.
CloseDialog ==
    /\ dialog.open
    /\ dialog' = [NoDialog EXCEPT !.activeApp = dialog.activeApp]
    /\ UNCHANGED <<dialogRest, cc_providers, res>>

\* The env of the request: the four keys of the form, those whose value is
\* undefined deleted (an empty base URL stays).
formEnv(d) ==
    LET keys == EnvKeys[d.activeApp]
        all == (keys.BASE_URL :> d.baseUrl) @@ (keys.API_KEY :> d.apiKey)
               @@ (keys.AUTH_TOKEN :> d.apiKey) @@ (keys.MODEL :> d.model)
    IN  [key \in {k \in DOMAIN all : k = keys.BASE_URL \/ all[k] # ""} |->
            all[key]]

\* The settings_config of the request: { env } of the form alone.
formConfig(d) == [env |-> formEnv(d), configToml |-> ""]

\* saveProvider: the provider of the form is PUT to /providers/:id when a
\* provider is edited and POSTed to /providers otherwise (the body has no
\* is_current); after a 2xx answer the dialog closes and the form is reset.
\* The button is disabled while the name is empty.
SaveProvider ==
    /\ dialog.open
    /\ dialog.name # ""
    /\ imp = NoImport
    /\ \E id \in Ids \cup DOMAIN cc_providers :
          /\ IF dialog.editing # "" THEN id = dialog.editing
             ELSE id \in Ids \ DOMAIN cc_providers
          /\ LET provider == [id |-> id, name |-> dialog.name,
                              app_type |-> dialog.activeApp,
                              settings_config |-> formConfig(dialog),
                              is_current |-> FALSE]
             IN  cc_providers' = ccProvidersDb_upsert(cc_providers, provider)
    /\ res' = Response(IF dialog.editing # "" THEN "PUT /providers/:id"
                       ELSE "POST /providers", 200)
    /\ dialog' = [NoDialog EXCEPT !.activeApp = dialog.activeApp]
    /\ UNCHANGED dialogRest

NextDialog ==
    \/ \E app \in Apps : SetActiveApp(app)
    \/ OpenAddDialog
    \/ \E id \in DOMAIN cc_providers : OpenEditDialog(id)
    \/ \E value \in TypedNames : TypeName(value)
    \/ \E value \in TypedBaseUrls : TypeBaseUrl(value)
    \/ \E value \in TypedApiKeys : TypeApiKey(value)
    \/ \E value \in TypedModels : TypeModel(value)
    \/ CloseDialog
    \/ SaveProvider

SpecDialog == InitDialog /\ [][NextDialog]_vars

(***************************************************************************)
(* POST /providers/import-defaults                                         *)
(***************************************************************************)

\* The defaults of the handler, in the order of its array.
Defaults ==
    <<[id |-> "anthropic-official", name |-> "Anthropic Official",
       app_type |-> "claude",
       settings_config |->
         [env |-> [ANTHROPIC_BASE_URL |-> "https://api.anthropic.com",
                   ANTHROPIC_MODEL |-> "claude-sonnet-4-20250514"],
          configToml |-> ""],
       is_current |-> FALSE],
      [id |-> "openai-official", name |-> "OpenAI Official",
       app_type |-> "codex",
       settings_config |->
         [env |-> [OPENAI_BASE_URL |-> "https://api.openai.com/v1",
                   OPENAI_MODEL |-> "gpt-4o"],
          configToml |-> ""],
       is_current |-> FALSE],
      [id |-> "google-official", name |-> "Google Official",
       app_type |-> "gemini",
       settings_config |->
         [env |-> [GOOGLE_GEMINI_BASE_URL |->
                       "https://generativelanguage.googleapis.com",
                   GEMINI_MODEL |-> "gemini-2.0-flash"],
          configToml |-> ""],
       is_current |-> FALSE]>>

DefaultIds == {Defaults[i].id : i \in DOMAIN Defaults}

RECURSIVE importDefaults(_, _, _, _)

\* The loop of a handler that upserts every default, present or not.
importEach(rows, i, imported, failAt) ==
    [rows |-> [id \in DOMAIN rows \cup DefaultIds |->
                 IF id \in DefaultIds
                 THEN ccProvidersDb_upsert(
                        rows, Defaults[CHOOSE k \in DOMAIN Defaults :
                                          Defaults[k].id = id])[id]
                 ELSE rows[id]],
     imported |-> Len(Defaults), threw |-> FALSE]

\* The loop of the handler from default i on: getById, and for an id that
\* has no row upsert and imported++.  failAt is the call of upsert that
\* throws (0: none does), counted from the start of the loop.
importDefaults(rows, i, imported, failAt) ==
    IF i > Len(Defaults)
    THEN [rows |-> rows, imported |-> imported, threw |-> FALSE]
    ELSE IF Defaults[i].id \in DOMAIN rows
         THEN importDefaults(rows, i + 1, imported, failAt)
    ELSE IF imported + 1 = failAt
         THEN [rows |-> rows, imported |-> imported, threw |-> TRUE]
    ELSE importDefaults(ccProvidersDb_upsert(rows, Defaults[i]), i + 1,
                        imported + 1, failAt)

\* POST /providers/import-defaults: the loop, then { success, imported },
\* or 500 from the catch when an upsert threw.
PostProvidersImportDefaults(failAt) ==
    /\ imp = NoImport
    /\ LET out == importDefaults(cc_providers, 1, 0, failAt)
       IN  /\ cc_providers' = out.rows
           /\ res' = [op |-> "POST /providers/import-defaults",
                      status |-> IF out.threw THEN 500 ELSE 200,
                      imported |-> out.imported]
    /\ UNCHANGED <<restVars, cc_prompts, fsVars, switchVars, simpleVars, imp>>

\* What a client has made of a default: its name kept, its settings and
\* its current flag whatever the client sent.
EditBodies == {b \in PutBodies : b.name = "Relay" /\ b.app_type = UNDEF}

NextDefaults ==
    \/ \E failAt \in 0..Len(Defaults) : PostProvidersImportDefaults(failAt)
    \/ \E id \in DefaultIds, body \in EditBodies : PutProvidersId(id, body)
    \/ \E id \in DefaultIds : DeleteProvidersId(id)

SpecDefaults == Init /\ [][NextDefaults]_vars

(***************************************************************************)
(* useWebSocket                                                            *)
(***************************************************************************)

\* Closes of sockets the runs stop at.
MaxCloses == 3

\* Close codes: a clean close, the server going away, a lost connection.
CloseCodes == {1000, 1001, 1006}

\* The state of everything but the hook.
socketRest ==
    <<cc_providers, cc_prompts, providers, fsVars, switchVars, simple, seen,
      imp, res, ap, cc_speed_tests, probe, now, fetched, cc_mcp_servers, rmw,
      dialog>>

\* connect(): outside platform mode, with no token in localStorage, it
\* warns and returns; otherwise new WebSocket(wsUrl) with its handlers.
connect(hook) ==
    IF ~hook.platform /\ ~hook.token
    THEN [hook EXCEPT !.retry = IF @ = "scheduled" THEN "gave up" ELSE @]
    ELSE [hook EXCEPT !.socket = "connecting",
                      !.retry = IF @ = "scheduled" THEN "attempted" ELSE @]

\* A close handler that asks for a reconnect whatever the code.
reconnectsAlways(code) == TRUE

\* if (event.code !== 1000) in onclose.
reconnects(code) == code # 1000

\* An open handler that counts every open.
countsEveryOpen(hook) == TRUE

\* if (hasConnectedOnceRef.current) in onopen.
countsReconnect(hook) == hook.hasConnectedOnceRef

InitSocket == Init

\* The user logs in or out: the token is stored or removed.
Login ==
    /\ ~ws.token
    /\ ws' = [ws EXCEPT !.token = TRUE]
    /\ UNCHANGED socketRest

Logout ==
    /\ ws.token
    /\ ws' = [ws EXCEPT !.token = FALSE]
    /\ UNCHANGED socketRest

\* The component mounts and its effect runs connect(); platform is
\* VITE_IS_PLATFORM of the build.
Mount(platform) ==
    /\ ws.mounted = "no"
    /\ ws' = connect([ws EXCEPT !.mounted = "yes", !.platform = platform])
    /\ UNCHANGED socketRest

\* websocket.onopen: setReconnectCount(prev => prev + 1) when the hook has
\* connected before (an update of an unmounted component's state is
\* dropped), then hasConnectedOnceRef.current = true.
SocketOpens ==
    /\ ws.socket = "connecting"
    /\ ws' = [ws EXCEPT !.socket = "open",
                        !.opens = @ + 1,
                        !.reconnectCount =
                            IF countsReconnect(ws) /\ ws.mounted = "yes"
                            THEN @ + 1 ELSE @,
                        !.hasConnectedOnceRef = TRUE]
    /\ UNCHANGED socketRest

\* websocket.onclose with the code of the close (1006 for an attempt that
\* failed): unless the code is 1000, setTimeout(connect, 3000) and its id
\* into reconnectTimeoutRef.
SocketCloses(code) ==
    /\ ws.socket \in {"connecting", "open"}
    /\ ws.socket = "connecting" => code = 1006
    /\ ws.closes < MaxCloses
    /\ ws' = [ws EXCEPT !.socket = "closed", !.code = code,
                        !.closes = @ + 1,
                        !.timers = IF reconnects(code) THEN @ + 1 ELSE @,
                        !.reconnectTimeoutRef =
                            IF reconnects(code) THEN TRUE ELSE @,
                        !.retry = IF reconnects(code) THEN "scheduled"
                                  ELSE "none"]
    /\ UNCHANGED socketRest

\* The timer of a close fires after its 3 seconds: connect().
TimerFires ==
    /\ ws.timers > 0
    /\ ws' = connect([ws EXCEPT !.timers = @ - 1,
                                !.reconnectTimeoutRef = FALSE])
    /\ UNCHANGED socketRest

\* The component unmounts and the effect's cleanup runs: clearTimeout of
\* the timer reconnectTimeoutRef holds; the socket is left as it is.
Unmount ==
    /\ ws.mounted = "yes"
    /\ ws' = [ws EXCEPT !.mounted = "gone",
                        !.timers = IF ws.reconnectTimeoutRef THEN @ - 1 ELSE @,
                        !.reconnectTimeoutRef = FALSE,
                        !.retry = IF ws.reconnectTimeoutRef THEN "cleared"
                                  ELSE @]
    /\ UNCHANGED socketRest

NextSocket ==
    \/ Login
    \/ Logout
    \/ \E platform \in BOOLEAN : Mount(platform)
    \/ SocketOpens
    \/ \E code \in CloseCodes : SocketCloses(code)
    \/ TimerFires
    \/ Unmount

SpecSocket == InitSocket /\ [][NextSocket]_vars

\* The browser runs a timer that is due: a pending timer fires unless it
\* is cleared.
SpecSocketLive == SpecSocket /\ WF_vars(TimerFires)

(***************************************************************************)
(* Properties of the provider store                                        *)
(***************************************************************************)

\* A step of a handler that reaches ccProvidersDb.upsert with this provider
\* object: POST /providers, PUT /providers/:id or an entry of POST /import.
UpsertStep(body) ==
    \/ PostProviders(body)
    \/ \E id \in Ids : PutProvidersId(id, body)
    \/ \E appType \in Apps : PostImportEntry(appType, body)

\* C1 (invariant I1): in every reachable state each app_type has at most
\* one provider with is_current = true.
C1_AtMostOneCurrent ==
    \A appType \in Apps : Cardinality(CurrentIds(cc_providers, appType)) <= 1

\* C3: upsert never touches is_current: across a step of a handler that
\* upserts, every stored provider keeps its flag and a newly inserted
\* provider is not current.
C3_UpsertKeepsIsCurrent ==
    [][(\E body \in Bodies : UpsertStep(body))
          => \A i \in DOMAIN cc_providers' :
                cc_providers'[i].is_current =
                    IF i \in DOMAIN cc_providers
                    THEN cc_providers[i].is_current ELSE FALSE]_vars

\* C10: an upsert of a provider whose name is empty or missing is rejected
\* with a validation error (400) and leaves the store unchanged, on every
\* path that reaches upsert.
C10_NamelessUpsertRejected ==
    [][\A body \in Bodies :
          (body.name \in {UNDEF, ""} /\ UpsertStep(body))
            => (res'.status = 400 /\ cc_providers' = cc_providers)]_vars

\* C28: the delete of a current provider is carried out: the row is gone,
\* every other row is as it was, and getCurrent of its app type then finds
\* no provider (until a switch sets one).
C28_DeleteOfCurrentLeavesNoCurrent ==
    [][\A id \in Ids :
          (/\ id \in DOMAIN cc_providers
           /\ cc_providers[id].is_current
           /\ DeleteProvidersId(id))
             => /\ DOMAIN cc_providers' = DOMAIN cc_providers \ {id}
                /\ \A i \in DOMAIN cc_providers' :
                      cc_providers'[i] = cc_providers[i]
                /\ CurrentIds(cc_providers', cc_providers[id].app_type) = {}
      ]_vars

\* C33: the app_type of a provider never changes after its creation: no
\* step, of POST /providers, PUT /providers/:id or POST /import (which
\* passes the app_type of the list), changes the app_type of a row that
\* stays in the store.
C33_AppTypeNeverChanges ==
    [][\A id \in Ids :
          (id \in DOMAIN cc_providers /\ id \in DOMAIN cc_providers')
             => cc_providers'[id].app_type = cc_providers[id].app_type]_vars

\* POST /import has just upserted an entry of its codex list, and the only
\* row of the store, which that entry named, is a claude provider still.
C33_Witness ==
    /\ imp.n >= 1
    /\ imp.app = AppIndex("codex")
    /\ DOMAIN cc_providers = {"A"}
    /\ cc_providers["A"].app_type = "claude"

(***************************************************************************)
(* Properties of the prompt store                                          *)
(***************************************************************************)

\* C8 (invariant I2): in every reachable state each app_type has at most
\* one prompt with is_enabled = true.
C8_AtMostOneEnabled ==
    \A appType \in Apps : Cardinality(EnabledIds(cc_prompts, appType)) <= 1

\* C9: enabling a prompt of an app_type that has an enabled prompt leaves
\* it the only enabled prompt of that app_type, and enable on a prompt
\* that is already enabled leaves every prompt's is_enabled flag unchanged.
C9_EnableSwapsAndIsIdempotent ==
    [][\A id \in PromptIds, appType \in Apps :
          (PostPromptsIdEnable(id, appType, "none") /\ id \in DOMAIN cc_prompts)
            => /\ (cc_prompts[id].app_type = appType
                      /\ EnabledIds(cc_prompts, appType) # {})
                    => EnabledIds(cc_prompts', appType) = {id}
               /\ cc_prompts[id].is_enabled
                    => \A i \in DOMAIN cc_prompts :
                          cc_prompts'[i].is_enabled = cc_prompts[i].is_enabled]_vars

(***************************************************************************)
(* Properties of the switch                                                *)
(***************************************************************************)

\* A request of the full route module names a provider of the app type it
\* asks for.
Matches(id, appType) ==
    id \in DOMAIN cc_providers /\ cc_providers[id].app_type = appType

\* C2: after each switchTo(id, app_type) call that the switch handler makes
\* and that does not throw, exactly one provider of that app_type is
\* current, and it is the provider with the id passed to that call.
C2_SwitchedToIsTheOnlyCurrent ==
    [][\A r \in Reqs, id \in SwitchIds, appType \in Apps :
          (SwitchBegin(r, id, appType, "none") /\ id \in DOMAIN cc_providers)
            => CurrentIds(cc_providers', appType) = {id}]_vars

\* C4: a switch for which no provider has both the id and the app_type
\* answers 404 (NotFound) and changes no is_current flag, and no such
\* request goes on to write a settings file or process.env.
C4_NoMatchSwitchChangesNothing ==
    [][/\ \A r \in Reqs, id \in SwitchIds, appType \in Apps, fault \in Faults :
            (SwitchBegin(r, id, appType, fault) /\ ~Matches(id, appType))
              => (req'[r].status = 404 /\ cc_providers' = cc_providers)
       /\ \A r \in Reqs :
            SwitchWrite(r) => Matches(req[r].id, req[r].appType)]_vars

\* C7: once requests to switch to existing providers of one app_type have
\* all completed, exactly one provider of that app_type is current: the one
\* named by the request whose switchTo committed last.
C7_LastCommittedWins ==
    \A appType \in Apps :
        (\A r \in Reqs : /\ req[r].pc = "done"
                         /\ req[r].status = 200
                         /\ req[r].appType = appType
                         /\ Matches(req[r].id, appType))
          => CurrentIds(cc_providers, appType) = {req[commits[Len(commits)]].id}

\* Two overlapping requests, to A and then to B, have both completed, the
\* first to commit being the last to respond, and B is the current provider.
C7_Witness ==
    /\ commits = <<1, 2>>
    /\ finished = <<2, 1>>
    /\ req[1].id = "A" /\ req[1].status = 200 /\ req[1].appType = "claude"
    /\ req[2].id = "B" /\ req[2].status = 200 /\ req[2].appType = "claude"
    /\ CurrentIds(cc_providers, "claude") = {"B"}

\* C5: the switch is all-or-nothing: when the clear statement or the set
\* statement fails, the request answers with the error (500) and every
\* provider's is_current flag is what it was before the request.
C5_FailedSwitchChangesNothing ==
    (simple.pc = "done" /\ simple.status = 500)
      => \A i \in DOMAIN providers :
            providers[i].is_current = simple.before[i].is_current

\* C6: while a switch from the current provider of an app_type to another
\* provider of that app_type is in progress, a reader on another connection
\* counts exactly one current provider of that app_type.
C6_ReaderSeesOneCurrent ==
    [][\A appType \in Apps :
          (/\ Reader(appType)
           /\ simple.pc \in {"clear", "set", "apply"}
           /\ simple.appType = appType
           /\ Cardinality(CurrentIds(simple.before, appType)) = 1)
            => seen'.n = 1]_vars

\* The request's switchTo committed and its file projection then failed.
ApplyFailed(r) ==
    /\ req[r].pc = "done" /\ req[r].status = 500
    /\ \E i \in 1..Len(commits) : commits[i] = r

\* The request's switchTo threw: the selection was not changed.
StoreFailed(r) ==
    /\ req[r].pc = "done" /\ req[r].status = 500
    /\ \A i \in 1..Len(commits) : commits[i] # r

\* C15: when the file projection fails after switchTo has committed, the
\* store is not rolled back: as long as no later switchTo has committed,
\* the provider passed to switchTo is the single current provider of the
\* app_type passed with it.
C15_FailedApplyKeepsSelection ==
    \A r \in Reqs :
        (ApplyFailed(r) /\ commits[Len(commits)] = r)
          => CurrentIds(cc_providers, req[r].appType) = {req[r].id}

\* C16: a store failure and an apply failure never give the caller the
\* same kind of error result (HTTP status and shape of the JSON body).
C16_FailureKindsDistinguished ==
    \A r1, r2 \in Reqs :
        (StoreFailed(r1) /\ ApplyFailed(r2))
          => <<req[r1].status, req[r1].body>> # <<req[r2].status, req[r2].body>>

\* C30: store and file converge: once concurrent requests to switch to
\* existing providers of one app type have all completed without error, the
\* env of the app's settings file holds every env entry of the provider the
\* store reports as current.
C30_StoreAndFileConverge ==
    \A appType \in {"claude", "gemini"} :
        (\A r \in Reqs : /\ req[r].pc = "done"
                         /\ req[r].status = 200
                         /\ req[r].appType = appType
                         /\ Matches(req[r].id, appType))
          => \A id \in CurrentIds(cc_providers, appType) :
                LET settings == readJsonFile(files, settingsPath(appType))
                    env == cc_providers[id].settings_config.env
                IN  /\ "env" \in DOMAIN settings
                    /\ \A key \in DOMAIN env :
                          /\ key \in DOMAIN settings["env"]
                          /\ settings["env"][key] = env[key]

(***************************************************************************)
(* Properties of applyProviderConfig                                       *)
(***************************************************************************)

\* The files applyProviderConfig writes for the applications.
TargetPaths ==
    {CLAUDE_SETTINGS, CODEX_CONFIG, CODEX_AUTH, GEMINI_SETTINGS, GEMINI_ENV}

\* What a path holds: nothing, or a file with its content.
Content(fs, filePath) ==
    IF filePath \in DOMAIN fs THEN <<"file", fs[filePath]>> ELSE <<"none">>

\* The env of the provider the call under way was given.
apEnv == ApplyProviders[ap.id].settings_config.env

\* C11: every file apply writes goes through a temporary file and a rename:
\* when the call is interrupted, each target file holds either its content
\* from before the call or the complete new content, never a truncated or
\* partly written one.
C11_InterruptedWriteLeavesTargetIntact ==
    ap.pc = "crashed"
      => \A filePath \in TargetPaths :
            \/ Content(files, filePath) = Content(ap.before, filePath)
            \/ Content(files, filePath) =
                  Content(applyFiles(ap.before, ap.settings,
                                     ApplyProviders[ap.id], ap.appType),
                          filePath)

\* C12: for claude and gemini, once apply has written the settings
\* document, its env holds every provider entry with the provider's value
\* and every other previous entry with its previous value, every other
\* top-level key keeps its previous value, and a missing file counts as {}.
C12_EnvIsShallowMerged ==
    (ap.pc = "done" /\ ap.appType \in {"claude", "gemini"})
      => LET filePath == settingsPath(ap.appType)
             old == IF filePath \in DOMAIN ap.before
                    THEN ap.before[filePath] ELSE EmptyObj
             oldEnv == IF "env" \in DOMAIN old THEN old["env"] ELSE EmptyObj
             new == files[filePath]
         IN  /\ DOMAIN new = DOMAIN old \cup {"env"}
             /\ \A key \in DOMAIN old \ {"env"} : new[key] = old[key]
             /\ DOMAIN new["env"] = DOMAIN oldEnv \cup DOMAIN apEnv
             /\ \A key \in DOMAIN apEnv : new["env"][key] = apEnv[key]
             /\ \A key \in DOMAIN oldEnv \ DOMAIN apEnv :
                   new["env"][key] = oldEnv[key]

\* The claude settings document had a model, a token and a proxy entry; the
\* call has resolved with the token replaced and the other two kept.
C12_Witness ==
    /\ ap.pc = "done" /\ ap.id = "A" /\ ap.appType = "claude"
    /\ CLAUDE_SETTINGS \in DOMAIN ap.before
    /\ ap.before[CLAUDE_SETTINGS]["env"]["ANTHROPIC_AUTH_TOKEN"] = "sk-ant-old"
    /\ files[CLAUDE_SETTINGS]["env"]["ANTHROPIC_AUTH_TOKEN"] = "sk-ant-relay"
    /\ files[CLAUDE_SETTINGS]["env"]["HTTP_PROXY"] = "proxy"
    /\ files[CLAUDE_SETTINGS]["model"] = "opus"

\* C13: apply changes process.env only as its last step, after the write
\* of the settings file and its rename have succeeded; a call whose file
\* write fails leaves process.env as it was.
C13_EnvAssignedLastAfterWrite ==
    [][procEnv' # procEnv
          => /\ ap'.pc = "done"
             /\ Content(files, settingsPath(ap.appType)) =
                   <<"file", mergeEnv(ap.settings, apEnv)>>
             /\ tempFile(settingsPath(ap.appType)) \notin DOMAIN files
             /\ files' = files]_vars

\* The write of the claude settings file has failed, and process.env has
\* none of the provider's entries.
C13_Witness ==
    /\ ap.pc = "failed" /\ ap.appType = "claude"
    /\ tempFile(CLAUDE_SETTINGS) \in DOMAIN files
    /\ procEnv = EmptyObj

\* C14: after a successful apply, for claude, codex or gemini, every entry
\* of the provider's env is in process.env with the provider's value.
C14_EnvMirroredForEveryApp ==
    ap.pc = "done"
      => \A key \in DOMAIN apEnv :
            key \in DOMAIN procEnv /\ procEnv[key] = apEnv[key]

\* The targets written through writeJsonFile.
JsonPaths == {CLAUDE_SETTINGS, CODEX_AUTH, GEMINI_SETTINGS}

\* C29: on every way out of an atomic file write the temporary file is
\* gone: none is left when apply has resolved, and none when a write or a
\* rename has failed.
C29_NoTemporaryFileLeft ==
    ap.pc \in {"done", "failed"}
      => \A filePath \in JsonPaths : tempFile(filePath) \notin DOMAIN files

(***************************************************************************)
(* Properties of the masking                                               *)
(***************************************************************************)

\* The env stored for provider A and the env GET /providers answered.
storedEnv == cc_providers["A"].settings_config.env

\* An entry GET /providers has to mask.
toMask(entry) == isCredential(entry[1]) /\ Len(entry[2]) > 12

\* C17: in the env GET /providers returns, every credential key (one that
\* contains TOKEN, KEY or SECRET) with a value of more than 12 characters
\* is absent and key_MASKED holds the first 8 characters, "..." and the
\* last 4; every other entry is unchanged; no other key is present.
C17_MaskReplacesLongCredentials ==
    (res.op = "GET /providers" /\ "A" \in DOMAIN res.body)
      => LET out == res.body["A"]
         IN  /\ \A i \in 1..Len(storedEnv) :
                   LET key == storedEnv[i][1]
                       value == storedEnv[i][2]
                   IN  IF toMask(storedEnv[i])
                       THEN /\ ~hasKey(out, key)
                            /\ hasKey(out, key \o MASKED)
                            /\ getKey(out, key \o MASKED) = maskValue(value)
                       ELSE /\ hasKey(out, key)
                            /\ getKey(out, key) = value
             /\ \A j \in 1..Len(out) :
                   \E i \in 1..Len(storedEnv) :
                      out[j][1] = IF toMask(storedEnv[i])
                                  THEN storedEnv[i][1] \o MASKED
                                  ELSE storedEnv[i][1]

\* C18: masking is display-only: GET /providers and GET /env leave every
\* persisted settings_config as it was.
C18_ReadsLeaveStoreUnmasked ==
    [][(\E appType \in Apps : GetProviders(appType) \/ GetEnv(appType))
          => \A i \in DOMAIN cc_providers :
                /\ i \in DOMAIN cc_providers'
                /\ cc_providers'[i].settings_config =
                      cc_providers[i].settings_config]_vars

\* GET /providers has answered with KEY masked, and the stored env still
\* holds KEY with its 13 characters.
C18_Witness ==
    /\ res.op = "GET /providers" /\ "A" \in DOMAIN res.body
    /\ hasKey(res.body["A"], KEY \o MASKED)
    /\ ~hasKey(res.body["A"], KEY)
    /\ hasKey(storedEnv, KEY)
    /\ Len(getKey(storedEnv, KEY)) = 13

(***************************************************************************)
(* Properties of the speed tests                                           *)
(***************************************************************************)

\* The status the classification rule gives an outcome: operational below
\* 500, degraded from 500 on and on a timeout, failed on any other failure.
Classified(outcome) ==
    IF outcome.kind = "response"
    THEN IF outcome.httpStatus < 500 THEN "operational" ELSE "degraded"
    ELSE IF outcome.kind = "AbortError" THEN "degraded" ELSE "failed"

LastRow == cc_speed_tests[Len(cc_speed_tests)]

\* C19: every probe, of POST /speed-test or of POST /speed-test/all, saves
\* the status the one classification rule gives its outcome: operational for
\* a response below 500, degraded for one from 500 on, degraded for a
\* timeout, failed for any other transport failure.
C19_ProbesClassifyAlike ==
    [][\A outcome \in Outcomes :
          /\ (\E providerId \in DOMAIN cc_providers, app \in Apps :
                 PostSpeedTest(providerId, app, outcome))
             => LastRow'.status = Classified(outcome)
          /\ PostSpeedTestAllProbe(outcome)
             => LastRow'.status = Classified(outcome)]_vars

\* C20: after any sequence of probes no provider has more than keepCount
\* rows of cc_speed_tests (each probe having added exactly one row and then
\* trimmed the provider's rows).
C20_RetentionBoundsRows ==
    \A providerId \in DOMAIN cc_providers :
        Cardinality(RowsOf(cc_speed_tests, providerId)) <= keepCount

\* C23: in POST /speed-test/all the failure of one provider's probe, be it
\* of its request or of recording its result, neither aborts nor holds up
\* the probes of the others: when the run ends every provider of the app but
\* the failing one has been probed and recorded.
C23_SiblingsStillProbed ==
    [][(probe.pc = "loop" /\ probe'.pc = "idle")
          => Cardinality(probe.left) <= 1]_vars

\* The ways the request of a probe fails: the timeout, and every other
\* error fetch throws or rejects with (DNS, connection, TLS, a malformed
\* url).
Failures == {AbortError, FetchError}

\* C24: for an existing provider no failure of the probe's request becomes
\* an error response: POST /speed-test answers 200 with status degraded or
\* failed and has saved one row with it, and POST /speed-test/all saves one
\* row with such a status and goes on with its loop.
C24_ProbeFailuresBecomeResults ==
    [][\A outcome \in Failures :
          /\ (/\ res'.op = "POST /speed-test"
              /\ \E providerId \in DOMAIN cc_providers, app \in Apps :
                    PostSpeedTest(providerId, app, outcome))
             => /\ res'.status = 200
                /\ res'.result.status \in {"degraded", "failed"}
                /\ Len(cc_speed_tests') = Len(cc_speed_tests) + 1
                /\ LastRow'.status = res'.result.status
          /\ (probe' # probe /\ PostSpeedTestAllProbe(outcome))
             => /\ Len(cc_speed_tests') = Len(cc_speed_tests) + 1
                /\ LastRow'.status \in {"degraded", "failed"}
                /\ probe'.pc = "loop"
                /\ res' = res]_vars

\* POST /speed-test has answered 200 for a provider whose request failed
\* with no response, and its row is the last of the table.
C24_Witness ==
    /\ res.op = "POST /speed-test"
    /\ res.status = 200
    /\ res.result.httpStatus = 0
    /\ res.result.status = "failed"
    /\ Len(cc_speed_tests) > 0
    /\ LastRow.provider_id = res.result.providerId
    /\ LastRow.status = "failed"

\* C25: a probe of an endpoint that never responds ends: the timer aborts
\* the request, and the probe is saved and reported with status degraded,
\* in POST /speed-test and in POST /speed-test/all alike.
C25_UnresponsiveEndpointGivesDegraded ==
    [][/\ (/\ res'.op = "POST /speed-test"
           /\ \E providerId \in DOMAIN cc_providers, app \in Apps :
                 PostSpeedTest(providerId, app, AbortError))
          => /\ res'.status = 200
             /\ res'.result.status = "degraded"
             /\ LastRow'.status = "degraded"
       /\ (probe' # probe /\ PostSpeedTestAllProbe(AbortError))
          => LastRow'.status = "degraded"]_vars

\* A turn of the loop of POST /speed-test/all, for the provider id.
TurnOf(id) ==
    /\ probe.pc = "loop"
    /\ id \in probe.left
    /\ probe'.pc = "loop"
    /\ probe'.left = probe.left \ {id}

\* C26: POST /speed-test/all probes each provider of the app type exactly
\* once, and sends each probe to the endpoint and with the credential that
\* POST /speed-test resolves for that provider and that app type.
C26_ProbeAllTargetsAsSingleProbe ==
    [][/\ \A id \in DOMAIN cc_providers :
             TurnOf(id)
                => fetched' = testTarget(cc_providers[id].settings_config.env,
                                         probe.app)
       /\ (probe # probe' /\ PostSpeedTestAllEnd)
             => probe.results = ccProvidersDb_getAll(cc_providers, probe.app)
      ]_vars

\* C34: every row of cc_speed_tests refers to a row of cc_providers: a
\* save for an id no provider has fails, and the delete of a provider
\* removes its results.
C34_ResultsReferToProviders ==
    \A n \in DOMAIN cc_speed_tests :
        cc_speed_tests[n].provider_id \in DOMAIN cc_providers

\* A run of POST /speed-test/all has saved the result of A, A has been
\* deleted since and its result with it, and the run has B still to probe.
C34_Witness ==
    /\ probe.pc = "loop"
    /\ "A" \in probe.results
    /\ "B" \in probe.left
    /\ "A" \notin DOMAIN cc_providers
    /\ RowsOf(cc_speed_tests, "A") = {}
    /\ RowsOf(cc_speed_tests, "B") # {}

(***************************************************************************)
(* Properties of ccSpeedTestsDb.cleanup                                    *)
(***************************************************************************)

Min(a, b) == IF a <= b THEN a ELSE b

\* after is before with exactly the positions S kept, where S holds, of
\* each provider, min(n, keep) rows, none of them older than a row left out.
KeepsMostRecent(before, after, keep) ==
    \E S \in SUBSET DOMAIN before :
        /\ after = subSeq(before, S)
        /\ \A i \in DOMAIN before :
              Cardinality(S \cap RowsOf(before, before[i].provider_id))
                 = Min(Cardinality(RowsOf(before, before[i].provider_id)),
                       keep)
        /\ \A i \in S, j \in DOMAIN before \ S :
              before[i].provider_id = before[j].provider_id
                 => before[i].tested_at >= before[j].tested_at

\* C21: after cleanup(keep) each provider has exactly min(n, keep) rows, n
\* its count before, and the rows that survive are its most recent by
\* tested_at, also when several rows share a tested_at.
C21_CleanupKeepsMostRecent ==
    [][\A keep \in 0..MaxKeep :
          Cleanup(keep)
             => KeepsMostRecent(cc_speed_tests, cc_speed_tests', keep)]_vars

\* A cleanup has deleted at least two rows and left a provider two rows of
\* one tested_at.
C21_Witness ==
    /\ res.op = "ccSpeedTestsDb.cleanup"
    /\ res.result.changes >= 2
    /\ res.result.keepCount >= 1
    /\ \E i, j \in DOMAIN cc_speed_tests :
          /\ i # j
          /\ cc_speed_tests[i].provider_id = cc_speed_tests[j].provider_id
          /\ cc_speed_tests[i].tested_at = cc_speed_tests[j].tested_at

\* The rows of one provider, in order.
ProviderRows(rows, providerId) ==
    SelectSeq(rows, LAMBDA row : row.provider_id = providerId)

\* C22: cleanup is idempotent (a second cleanup(keep) right after the first
\* can leave no other table than the first left) and deletes no row of a
\* provider that has at most keep rows.
C22_CleanupIdempotent ==
    [][\A keep \in 0..MaxKeep :
          Cleanup(keep)
             => /\ ccSpeedTestsDb_cleanup(cc_speed_tests', keep)
                     = {cc_speed_tests'}
                /\ \A providerId \in CleanupIds :
                      Cardinality(RowsOf(cc_speed_tests, providerId)) <= keep
                         => ProviderRows(cc_speed_tests', providerId)
                               = ProviderRows(cc_speed_tests, providerId)]_vars

\* A cleanup has run over a table it had nothing to delete from, a provider
\* holding exactly keepCount rows.
C22_Witness ==
    /\ res.op = "ccSpeedTestsDb.cleanup"
    /\ res.result.changes = 0
    /\ res.result.keepCount >= 1
    /\ \E providerId \in CleanupIds :
          Cardinality(RowsOf(cc_speed_tests, providerId))
             = res.result.keepCount

(***************************************************************************)
(* Properties of the MCP servers                                           *)
(***************************************************************************)

\* The three flags of a row.
Flags(row) ==
    [claude |-> row.enabled_claude, codex |-> row.enabled_codex,
     gemini |-> row.enabled_gemini]

\* C27: the three enabled flags of an MCP server are independent:
\* toggleApp(id, app, enabled) sets enabled_<app> of that server and leaves
\* its two other flags, the rest of its row and every other server as they
\* were.
C27_ToggleSetsOneFlag ==
    [][\A id \in McpIds, app \in Apps, enabled \in Enabled :
          PostMcpToggle(id, app, enabled)
             => /\ DOMAIN cc_mcp_servers' = DOMAIN cc_mcp_servers
                /\ \A i \in DOMAIN cc_mcp_servers \ {id} :
                      cc_mcp_servers'[i] = cc_mcp_servers[i]
                /\ id \in DOMAIN cc_mcp_servers
                      => /\ Flags(cc_mcp_servers'[id])[app] = (enabled = "true")
                         /\ \A other \in Apps \ {app} :
                               Flags(cc_mcp_servers'[id])[other]
                                  = Flags(cc_mcp_servers[id])[other]
                         /\ cc_mcp_servers'[id].name = cc_mcp_servers[id].name
                         /\ cc_mcp_servers'[id].command
                               = cc_mcp_servers[id].command]_vars

\* After a toggle one server is enabled for codex and gemini and not for
\* claude, a combination no POST or PUT body gives, while the other server
\* keeps another combination.
C27_Witness ==
    /\ res = Response("POST /mcp/:id/toggle", 200)
    /\ \E id \in DOMAIN cc_mcp_servers :
          /\ Flags(cc_mcp_servers[id])
                = [claude |-> FALSE, codex |-> TRUE, gemini |-> TRUE]
          /\ \E i \in DOMAIN cc_mcp_servers \ {id} :
                Flags(cc_mcp_servers[i])
                   = [claude |-> TRUE, codex |-> FALSE, gemini |-> TRUE]

(***************************************************************************)
(* Properties of the handlers that rewrite ~/.claude/settings.json         *)
(***************************************************************************)

\* The handlers that have answered, and those between their first and
\* their last step.
Answered == {w \in Writers : rmw[w].pc = "done"}
Underway == {w \in Writers : rmw[w].pc \notin {"new", "done"}}

\* The document holds what handler w was to put into it.
Holds(settings, w) ==
    CASE w.op = "POST /providers/:id/switch" ->
             /\ "env" \in DOMAIN settings
             /\ \A key \in DOMAIN w.arg :
                   /\ key \in DOMAIN settings["env"]
                   /\ settings["env"][key] = w.arg[key]
      [] w.op = "POST /prompts/:id/enable" ->
             /\ "systemPrompt" \in DOMAIN settings
             /\ settings["systemPrompt"] = w.arg
      [] w.op = "POST /prompts/disable-all" ->
             "systemPrompt" \notin DOMAIN settings
      [] w.op = "POST /mcp/sync" ->
             /\ "mcpServers" \in DOMAIN settings
             /\ settings["mcpServers"] = w.arg

\* C31: no update of ~/.claude/settings.json is lost: once a provider
\* switch, a prompt enable or disable-all and an MCP sync that overlapped
\* in any way have all answered 200, the file holds the effect of each: the
\* merged env, the systemPrompt value and the mcpServers object.
C31_NoUpdateLost ==
    (\A w \in Writers : rmw[w].pc = "done" /\ rmw[w].status = 200)
      => /\ CLAUDE_SETTINGS \in DOMAIN files
         /\ \A w \in Writers : Holds(files[CLAUDE_SETTINGS], rmw[w])

\* C32: handlers that write the settings file at the same time through the
\* one temporary path all complete without error, and once none is under
\* way the file is the complete document of one of them.
C32_ConcurrentWritesBothComplete ==
    /\ \A w \in Answered : rmw[w].status = 200
    /\ (Underway = {} /\ Answered # {})
         => /\ CLAUDE_SETTINGS \in DOMAIN files
            /\ \E w \in Answered : files[CLAUDE_SETTINGS] = rmw[w].data

(***************************************************************************)
(* Properties of the provider dialog                                       *)
(***************************************************************************)

\* A key of an env that holds a credential of the form.
isFormCredential(key) ==
    \E app \in Apps : key \in {EnvKeys[app].API_KEY, EnvKeys[app].AUTH_TOKEN}

\* C36: a provider that is edited in the dialog and saved with the key
\* field left empty keeps its stored *_API_KEY and *_AUTH_TOKEN values, and
\* no save writes a masked value (a key_MASKED entry) into the store.
C36_SaveWithoutKeyKeepsCredentials ==
    [][(SaveProvider /\ dialog.editing # "" /\ dialog.apiKey = "")
         => LET before == cc_providers[dialog.editing].settings_config.env
                after == cc_providers'[dialog.editing].settings_config.env
            IN  /\ \A key \in DOMAIN before :
                      isFormCredential(key)
                        => key \in DOMAIN after /\ after[key] = before[key]
                /\ \A key \in DOMAIN after : isFormCredential(key)
                      \/ key \in {EnvKeys[app].BASE_URL : app \in Apps}
                      \/ key \in {EnvKeys[app].MODEL : app \in Apps}]_vars

(***************************************************************************)
(* Properties of POST /providers/import-defaults                           *)
(***************************************************************************)

\* The last request was an import of the defaults that answered 200.
Imported == res.op = "POST /providers/import-defaults" /\ res.status = 200

\* C35: an import of the defaults leaves every row that exists as it is,
\* its is_current and settings_config included, and an import right after
\* an import that answered imports 0 providers and changes no row.
C35_ImportDefaultsIdempotent ==
    [][(\E failAt \in 0..Len(Defaults) : PostProvidersImportDefaults(failAt))
         => /\ \A id \in DOMAIN cc_providers :
                  /\ id \in DOMAIN cc_providers'
                  /\ cc_providers'[id] = cc_providers[id]
            /\ Imported
                 => /\ res'.status = 200
                    /\ res'.imported = 0
                    /\ cc_providers' = cc_providers]_vars

\* An import has answered with 0 imported while the first default is a
\* row a client has changed and made current, and the others are there.
C35_Witness ==
    /\ Imported
    /\ res.imported = 0
    /\ DefaultIds \subseteq DOMAIN cc_providers
    /\ cc_providers["anthropic-official"].is_current
    /\ cc_providers["anthropic-official"].settings_config = CfgOpenai
    /\ cc_providers["openai-official"].name = "OpenAI Official"

(***************************************************************************)
(* Properties of the responses that hide credentials                       *)
(***************************************************************************)

\* The value is a credential the responses must hide the middle of.
hidden(entry) == isCredential(entry[1]) /\ Len(entry[2]) > 12

\* The envs that differ from env only in characters 9 to length - 4 of the
\* values of credentials of more than 12 characters.
Variants(env) ==
    {other \in SecretInputs :
        /\ Len(other) = Len(env)
        /\ \A i \in 1..Len(env) :
              /\ other[i][1] = env[i][1]
              /\ IF hidden(env[i])
                 THEN /\ Len(other[i][2]) = Len(env[i][2])
                      /\ SubSeq(other[i][2], 1, 8) = SubSeq(env[i][2], 1, 8)
                      /\ SubSeq(other[i][2], Len(env[i][2]) - 3, Len(env[i][2]))
                           = SubSeq(env[i][2], Len(env[i][2]) - 3,
                                    Len(env[i][2]))
                 ELSE other[i][2] = env[i][2]}

\* The env the last response carried.
answeredEnv ==
    IF res.op = "GET /providers" THEN res.body["A"] ELSE res.body

\* The env the handler of the last response would have answered from a
\* store that holds env.
answerFor(env) ==
    CASE res.op = "GET /providers" -> maskEnv(env)
      [] res.op = "GET /env" -> safeEnv(env)
      [] res.op = "GET /env (cc-switch.js)" -> legacySafeEnv(env)

\* C37: the response of GET /providers and of GET /env is the one the
\* handler gives for any store that differs only in the hidden characters
\* (9 to length - 4) of a TOKEN, KEY or SECRET value of more than 12
\* characters, and no response carries such a value in full under the
\* credential's key or under key_MASKED.
C37_ResponsesHideCredentials ==
    res.op \in {"GET /providers", "GET /env", "GET /env (cc-switch.js)"}
      => LET stored == cc_providers["A"].settings_config.env
         IN  /\ \A other \in Variants(stored) : answerFor(other) = answeredEnv
             /\ \A i \in 1..Len(stored), j \in 1..Len(answeredEnv) :
                   (/\ hidden(stored[i])
                    /\ answeredEnv[j][1]
                         \in {stored[i][1], stored[i][1] \o MASKED})
                     => answeredEnv[j][2] # stored[i][2]

(***************************************************************************)
(* Properties of useWebSocket                                              *)
(***************************************************************************)

\* A close has just been handled.
Closing == ws.socket # "closed" /\ ws'.socket = "closed"

\* What holds of the timers at every step: a close schedules a reconnect
\* exactly when its code is not 1000, nothing connects after a close with
\* code 1000, and at most one timer is pending.
TimersAsClaimed ==
    /\ [][Closing => (ws'.timers = ws.timers + 1 <=> ws'.code # 1000)]_vars
    /\ [][(ws.socket = "closed" /\ ws.code = 1000)
            => (ws'.socket = "closed" /\ ws'.timers = 0)]_vars
    /\ [](ws.timers <= 1)

\* C38 as stated: the hook reconnects after every close whose code is not
\* 1000 and never after a close with code 1000; after an unclean close a
\* new connection attempt is eventually made, and at most one reconnect
\* timer is pending at any time.
C38_ReconnectsAfterEveryUncleanClose ==
    /\ TimersAsClaimed
    /\ (ws.retry = "scheduled") ~> (ws.retry = "attempted")

\* C38 as the hook has it: the same, the new attempt being made unless
\* the component unmounts before the timer fires (the cleanup clears it)
\* or, outside platform mode, the timer fires with no auth-token stored
\* (connect returns without a socket and without another timer).
C38_ReconnectsWhileMountedWithToken ==
    /\ TimersAsClaimed
    /\ (ws.retry = "scheduled")
         ~> (ws.retry \in {"attempted", "cleared", "gave up"})

\* The hook is mounted and connecting again after its second unclean
\* close, the first having been that of an attempt that failed.
C38_Witness ==
    /\ ws.mounted = "yes"
    /\ ws.closes = 2
    /\ ws.code = 1006
    /\ ws.opens = 1
    /\ ws.retry = "attempted"
    /\ ws.socket = "connecting"
    /\ ws.timers = 0

\* C39: while the hook is mounted, reconnectCount is 0 until the second
\* successful open and k - 1 after k >= 1 successful opens, whatever
\* closes and failed attempts came in between.
C39_ReconnectCountIsOpensLessOne ==
    ws.mounted = "yes"
      => ws.reconnectCount = IF ws.opens = 0 THEN 0 ELSE ws.opens - 1

\* Three opens with a failed attempt among the closes in between.
C39_Witness ==
    /\ ws.mounted = "yes"
    /\ ws.opens = 3
    /\ ws.closes = 3
    /\ ws.reconnectCount = 2
    /\ ws.socket = "closed"

====
